---- MODULE Spec2Model ----
(***************************************************************************)
(* RepoScope static metrics engine (backend/services/code_analyzer.py).    *)
(*                                                                         *)
(* A source file is described by a small "source description" (a sequence  *)
(* of items: functions, classes, blank lines).  From a description two     *)
(* views are derived, as the program sees them: the text lines (Render)    *)
(* and the tree-sitter tree (Parse).  A line is [indent, lead, toks]: its  *)
(* leading whitespace, the token its stripped text starts with and the set *)
(* of substrings of interest it contains; a line is blank (line.strip()    *)
(* is empty) iff toks = {}.  Floats are held in thousandths.  A tree node is *)
(* [type, start, end, children] with 0-based rows, as tree-sitter's        *)
(* node.type, node.start_point[0], node.end_point[0], node.children.       *)
(***************************************************************************)
EXTENDS Integers, Sequences, FiniteSets, TLC

VARIABLES languages, fs, op, arg, ret, prev, cache_dir, now, analyses,
          response_cache, cost_monitor

vars == <<languages, fs, op, arg, ret, prev, cache_dir, now, analyses,
          response_cache, cost_monitor>>

\* ------------------------------------------------------------------ bounds

\* Longest source description (items per file) enumerated for one file.
MaxItems == 2

\* Most files in an enumerated repository tree.
MaxFiles == 3

\* ------------------------------------------------------- program constants

\* `if method_count > 20` (tree detector) and (line detector).
GodClassThreshold == 20

\* `if method_length > 50` (tree detector), `if method_lines > 50` (line detector).
LongMethodThreshold == 50

\* `largest_files[:10]`, `hotspots[:10]`.
TopN == 10

\* ---------------------------------------------------------------- helpers

Max(a, b) == IF a >= b THEN a ELSE b

Min(a, b) == IF a <= b THEN a ELSE b

\* n copies of x.
Repeat(x, n) == [i \in 1..n |-> x]

\* sum(s), halving the sequence so that long ones do not nest deeply.
RECURSIVE SumSeq(_)
SumSeq(s) ==
    IF s = <<>> THEN 0
    ELSE IF Len(s) = 1 THEN s[1]
    ELSE LET h == Len(s) \div 2
         IN  SumSeq(SubSeq(s, 1, h)) + SumSeq(SubSeq(s, h + 1, Len(s)))

\* The concatenation of the sequences of ss, in order.
RECURSIVE Flatten(_)
Flatten(ss) ==
    IF ss = <<>> THEN <<>>
    ELSE IF Len(ss) = 1 THEN ss[1]
    ELSE LET h == Len(ss) \div 2
         IN  Flatten(SubSeq(ss, 1, h)) \o Flatten(SubSeq(ss, h + 1, Len(ss)))

NoValue == [kind |-> "none"]

\* The element of a one-element set.  {e(x) : x \in {v}} names the value v once,
\* as a local variable of the code does, however often e uses it.
Only(S) == CHOOSE x \in S : TRUE

\* The empty dict.
EmptyMap == [x \in {} |-> 0]

\* -------------------------------------------------- source descriptions

Func(span, body) == [k |-> "func", span |-> span, body |-> body]

Class(methods, decorated) == [k |-> "class", methods |-> methods, decorated |-> decorated]

Blank == [k |-> "blank"]

\* A statement on a line of its own whose text contains the given words.
Stmt(words) == [k |-> "stmt", words |-> words]

Spans == {2, LongMethodThreshold, LongMethodThreshold + 1}

Bodies == {"pass", "if", "elif", "try", "switch", "nested"}

Items ==
    {Func(2, b) : b \in Bodies}
    \cup {Func(s, "pass") : s \in Spans}
    \cup {Class(GodClassThreshold, 0), Class(GodClassThreshold + 1, 0)}
    \cup {Class(GodClassThreshold, 1), Blank}
    \cup {Stmt({"__new__", "cls"}), Stmt({"factory", "create"}), Stmt({"subscribe"}),
          Stmt({"deprecated"})}

RECURSIVE SeqsUpTo(_, _)
SeqsUpTo(S, n) ==
    IF n = 0 THEN {<<>>}
    ELSE LET shorter == SeqsUpTo(S, n - 1)
         IN  shorter \cup {Append(s, x) : s \in {t \in shorter : Len(t) = n - 1}, x \in S}

Sources == SeqsUpTo(Items, MaxItems)

\* Number of text rows an item occupies.
ItemRows(it) ==
    CASE it.k = "func" -> 1 + it.span
      [] it.k = "class" -> 1 + (IF it.methods + it.decorated = 0 THEN 1
                                ELSE it.methods + 2 * it.decorated)
      [] OTHER -> 1

\* ----------------------------------------------------- text view (lines)

\* A line: its indentation, the token its stripped text starts with, and the set
\* of tokens (substrings of interest) it contains; the blank line has none.
Ln(indent, lead, more) ==
    [indent |-> indent, lead |-> lead, toks |-> (IF lead = "" THEN {} ELSE {lead}) \cup more]

BlankLn == Ln(0, "", {})

\* Pairs <<x, t>> of tokens with x a proper substring (prefix) of t.
SubstringOf ==
    {<<"class", "class ">>, <<"class", "class=">>, <<"function", "function ">>,
     <<"#", "#include">>, <<"include", "#include">>, <<"include", "include ">>}

PrefixOf == {<<"class", "class ">>, <<"#", "#include">>, <<"include", "include ">>}

\* `x in line`
Contains(line, x) == \E t \in line.toks : x = t \/ <<x, t>> \in SubstringOf

\* `line.strip().startswith(x)`
StartsWith(line, x) == line.lead = x \/ <<x, line.lead>> \in PrefixOf

\* `not line.strip()`
IsBlankLine(line) == line.toks = {}

\* The text of one item, written in the syntax of `flavour`.
ItemLines(flavour, it) ==
    LET stmt == Ln(4, "stmt", {})
        method == CASE flavour = "python" -> Ln(4, "def ", {"(", ")"})
                    [] flavour = "java" -> Ln(4, "public ", {"(", ")", "{", "}"})
                    [] OTHER -> Ln(4, "stmt", {"(", ")", "{", "}"})
    IN  CASE it.k = "blank" -> <<BlankLn>>
          [] it.k = "stmt" -> <<Ln(0, "stmt", it.words)>>
          [] it.k = "func" ->
                CASE flavour = "python" ->
                        <<Ln(0, "def ", {"(", ")"})>> \o Repeat(stmt, it.span)
                  [] flavour = "javascript" ->
                        <<Ln(0, "function ", {"(", ")", "{"})>> \o Repeat(stmt, it.span - 1)
                        \o <<Ln(0, "}", {})>>
                  [] flavour = "java" ->
                        <<Ln(0, "class ", {"public ", "(", ")", "{"})>>
                        \o Repeat(stmt, it.span - 1) \o <<Ln(0, "}", {})>>
                  [] OTHER ->
                        <<Ln(0, "stmt", {"(", ")", "{"})>> \o Repeat(stmt, it.span - 1)
                        \o <<Ln(0, "}", {})>>
          [] OTHER ->
                <<Ln(0, "class ", IF flavour = "python" THEN {} ELSE {"{"})>>
                \o (IF it.methods + it.decorated = 0
                    THEN (IF flavour = "python" THEN <<stmt>> ELSE <<Ln(0, "}", {})>>)
                    ELSE Repeat(method, it.methods)
                         \o Flatten(Repeat(<<Ln(4, "@", {}), method>>, it.decorated)))

Render(flavour, src) == Flatten([i \in 1..Len(src) |-> ItemLines(flavour, src[i])])

\* ------------------------------------------------ tree view (tree-sitter)

Nd(type, start, end, children) ==
    [type |-> type, start |-> start, end |-> end, children |-> children]

Leaf(type, row) == Nd(type, row, row, <<>>)

\* Node type names of the grammars for the constructs used here.
Grammar ==
    [python |-> [root |-> "module", func |-> "function_definition",
                 class |-> "class_definition", body |-> "block", cbody |-> "block",
                 method |-> "function_definition", catch |-> "except_clause",
                 switch |-> "match_statement", case |-> "case_clause"],
     javascript |-> [root |-> "program", func |-> "function_declaration",
                 class |-> "class_declaration", body |-> "statement_block",
                 cbody |-> "class_body", method |-> "method_definition",
                 catch |-> "catch_clause", switch |-> "switch_statement",
                 case |-> "switch_case"],
     cpp |-> [root |-> "translation_unit", func |-> "function_definition",
                 class |-> "class_specifier", body |-> "compound_statement",
                 cbody |-> "field_declaration_list", method |-> "function_definition",
                 catch |-> "catch_clause", switch |-> "switch_statement",
                 case |-> "case_statement"],
     java |-> [root |-> "program", func |-> "method_declaration",
                 class |-> "class_declaration", body |-> "block",
                 cbody |-> "class_body", method |-> "method_declaration",
                 catch |-> "catch_clause", switch |-> "switch_expression",
                 case |-> "switch_block_statement_group"]]

\* The statements of a function body of kind b, on rows r1..r2.
BodyNodes(flavour, b, r1, r2) ==
    LET g == Grammar[flavour]
        blk(r) == Leaf(g.body, r)
    IN  CASE b = "if" -> <<Nd("if_statement", r1, r2, <<blk(r2)>>)>>
          [] b = "elif" ->
                IF flavour = "python"
                THEN <<Nd("if_statement", r1, r2,
                          <<blk(r1), Nd("elif_clause", r2, r2, <<blk(r2)>>)>>)>>
                ELSE <<Nd("if_statement", r1, r2,
                          <<blk(r1), Nd("else_clause", r2, r2,
                                        <<Nd("if_statement", r2, r2, <<blk(r2)>>)>>)>>)>>
          [] b = "nested" ->
                <<Nd("if_statement", r1, r2,
                     <<Nd(g.body, r2, r2, <<Nd("while_statement", r2, r2, <<blk(r2)>>)>>)>>)>>
          [] b = "try" ->
                <<Nd("try_statement", r1, r2, <<blk(r1), Nd(g.catch, r2, r2, <<blk(r2)>>)>>)>>
          [] b = "switch" ->
                <<Nd(g.switch, r1, r2, <<Leaf(g.case, r1), Leaf(g.case, r2)>>)>>
          [] OTHER -> <<Nd("expression_statement", r1, r2, <<>>)>>

\* The node of the item that starts on row r.
ItemNode(flavour, it, r) ==
    LET g == Grammar[flavour]
    IN  IF it.k = "stmt" THEN Leaf("expression_statement", r)
        ELSE IF it.k = "func"
        THEN LET last == IF flavour = "python" THEN r + it.span ELSE r + it.span - 1
                 stmts == IF it.body = "pass"
                          THEN BodyNodes(flavour, "pass", r + 1, last)
                          ELSE BodyNodes(flavour, it.body, r + 1, r + 2)
                               \o (IF last > r + 2
                                   THEN BodyNodes(flavour, "pass", r + 3, last)
                                   ELSE <<>>)
                 func == Nd(g.func, r, r + it.span,
                            <<Leaf("identifier", r), Leaf("parameters", r),
                              Nd(g.body, r + 1, r + it.span, stmts)>>)
             IN  \* A Java method stands in a class of its own, on the same rows.
                 IF flavour = "java"
                 THEN Nd(g.class, r, r + it.span,
                         <<Leaf("identifier", r), Nd(g.cbody, r, r + it.span, <<func>>)>>)
                 ELSE func
        ELSE LET n == it.methods
                 end == r + ItemRows(it) - 1
                 plain == [i \in 1..n |-> Nd(g.method, r + i, r + i, <<Leaf(g.body, r + i)>>)]
                 deco == [j \in 1..it.decorated |->
                            LET row == r + n + 2 * j - 1
                            IN  IF flavour = "python"
                                THEN Nd("decorated_definition", row, row + 1,
                                        <<Leaf("decorator", row),
                                          Nd(g.method, row + 1, row + 1,
                                             <<Leaf(g.body, row + 1)>>)>>)
                                ELSE Nd(g.method, row, row + 1,
                                        <<Leaf("decorator", row), Leaf(g.body, row + 1)>>)]
                 members == IF n + it.decorated = 0
                            THEN <<Leaf("expression_statement", r + 1)>>
                            ELSE plain \o deco
             IN  Nd(g.class, r, end,
                    <<Leaf("identifier", r), Nd(g.cbody, r + 1, end, members)>>)

RowOf(src, i) == SumSeq([j \in 1..(i - 1) |-> ItemRows(src[j])])

\* The tree the grammar of `flavour` yields for the text of src.
Parse(flavour, src) ==
    LET nodes == [i \in 1..Len(src) |->
                    IF src[i].k = "blank" THEN <<>>
                    ELSE <<ItemNode(flavour, src[i], RowOf(src, i))>>]
    IN  Nd(Grammar[flavour].root, 0, Max(0, RowOf(src, Len(src) + 1) - 1), Flatten(nodes))

\* The node types of a tree, in the order of a depth-first walk.
RECURSIVE TypesOfTree(_)
TypesOfTree(node) ==
    <<node.type>> \o Flatten([i \in 1..Len(node.children) |-> TypesOfTree(node.children[i])])

\* ------------------------------------------------------ language detection

\* A file name is [dot, stem, ext]: an optional leading ".", the stem, and the
\* suffix as pathlib's Path.suffix gives it ("" or "." followed by letters).
FileName(stem, ext) == [dot |-> FALSE, stem |-> stem, ext |-> ext]

HiddenName(stem, ext) == [dot |-> TRUE, stem |-> stem, ext |-> ext]

\* str.lower() on the strings that occur in the enumerated names.
Lower(s) ==
    CASE s = ".PY" -> ".py"
      [] s = "TEST" -> "test"
      [] s = "Makefile" -> "makefile"
      [] s = "Dockerfile" -> "dockerfile"
      [] s = "CMakeLists" -> "cmakelists"
      [] s = "MAKEFILE" -> "makefile"
      [] s = "README" -> "readme"
      [] OTHER -> s

NoLanguage == "<None>"

extension_map ==
    (".py" :> "python") @@ (".js" :> "javascript") @@ (".jsx" :> "javascript")
    @@ (".ts" :> "typescript") @@ (".tsx" :> "typescript") @@ (".java" :> "java")
    @@ (".cpp" :> "cpp") @@ (".cc" :> "cpp") @@ (".cxx" :> "cpp") @@ (".hpp" :> "cpp")
    @@ (".h" :> "cpp") @@ (".c" :> "c") @@ (".rs" :> "rust") @@ (".go" :> "go")
    @@ (".php" :> "php") @@ (".rb" :> "ruby") @@ (".cs" :> "csharp")
    @@ (".swift" :> "swift") @@ (".kt" :> "kotlin") @@ (".scala" :> "scala")
    @@ (".sh" :> "shell") @@ (".bash" :> "shell") @@ (".zsh" :> "shell")
    @@ (".fish" :> "shell") @@ (".cmake" :> "cmake") @@ (".dockerfile" :> "dockerfile")
    @@ (".html" :> "html") @@ (".xml" :> "xml") @@ (".sql" :> "sql") @@ (".r" :> "r")
    @@ (".m" :> "matlab") @@ (".pl" :> "perl") @@ (".lua" :> "lua") @@ (".vim" :> "vim")
    @@ (".el" :> "elisp")

\* Mutant: the special file names are not looked at.
detect_language_extension_only(name) ==
    IF Lower(name.ext) \in DOMAIN extension_map THEN extension_map[Lower(name.ext)]
    ELSE NoLanguage

detect_language(name) ==
    LET filename == <<name.dot, Lower(name.stem), Lower(name.ext)>>
        file_ext == Lower(name.ext)
    IN  IF filename \in {<<FALSE, "cmakelists", ".txt">>, <<FALSE, "makefile", "">>,
                         <<FALSE, "makefile", ".am">>, <<FALSE, "makefile", ".in">>}
        THEN (IF filename = <<FALSE, "cmakelists", ".txt">> THEN "cmake" ELSE "makefile")
        ELSE IF filename = <<FALSE, "dockerfile", "">> THEN "dockerfile"
        ELSE IF file_ext \in DOMAIN extension_map THEN extension_map[file_ext]
        ELSE NoLanguage

non_code_extensions ==
    {".md", ".txt", ".rst", ".adoc", ".json", ".yaml", ".yml", ".toml", ".ini", ".cfg",
     ".conf", ".css", ".scss", ".sass", ".less", ".png", ".jpg", ".jpeg", ".gif", ".svg",
     ".ico", ".pdf", ".doc", ".docx", ".xls", ".xlsx", ".zip", ".tar", ".gz", ".rar",
     ".log", ".tmp", ".cache"}

is_code_file(name) == Lower(name.ext) \notin non_code_extensions

\* The syntax a file of the given language is written in (and its grammar).
FlavourOf(language) ==
    IF language \in {"javascript", "typescript"} THEN "javascript"
    ELSE IF language \in {"cpp", "java"} THEN language
    ELSE "python"

\* --------------------------------------------------------- tree metrics

\* Mutant: the walk does not descend into the children.
cc_traverse_node_no_descent(node, language) ==
    IF language \in {"python", "javascript", "typescript", "java"}
       /\ node.type \in {"if_statement", "while_statement", "for_statement"}
    THEN 1 ELSE 0

RECURSIVE cc_traverse_node(_, _)
cc_traverse_node(node, language) ==
    LET hit ==
            IF language = "python"
            THEN node.type \in {"if_statement", "while_statement", "for_statement",
                                "try_statement", "except_clause", "elif_clause"}
            ELSE IF language \in {"javascript", "typescript"}
            THEN node.type \in {"if_statement", "while_statement", "for_statement",
                                "switch_statement", "case_clause", "catch_clause"}
            ELSE IF language = "java"
            THEN node.type \in {"if_statement", "while_statement", "for_statement",
                                "switch_expression", "catch_clause"}
            ELSE FALSE
    IN  (IF hit THEN 1 ELSE 0)
        + SumSeq([i \in 1..Len(node.children) |-> cc_traverse_node(node.children[i], language)])

\* Mutant: the base complexity forgotten.
calculate_cyclomatic_complexity_base0(tree, language) == cc_traverse_node(tree, language)

calculate_cyclomatic_complexity(tree, language) == 1 + cc_traverse_node(tree, language)

\* Mutant: the level is raised before the node's own increment is added.
RECURSIVE cog_traverse_node_level_first(_, _, _)
cog_traverse_node_level_first(node, language, level) ==
    LET control == node.type \in {"if_statement", "while_statement", "for_statement"}
        new_level == IF control \/ node.type = "function_definition"
                     THEN level + 1 ELSE level
        add == IF language = "python"
               THEN (IF control THEN 1 + new_level
                     ELSE IF node.type \in {"try_statement", "except_clause"} THEN 1 ELSE 0)
               ELSE IF language \in {"javascript", "typescript"}
               THEN (IF control THEN 1 + new_level
                     ELSE IF node.type \in {"switch_statement", "catch_clause"} THEN 1 ELSE 0)
               ELSE 0
    IN  add + SumSeq([i \in 1..Len(node.children) |->
                        cog_traverse_node_level_first(node.children[i], language, new_level)])

RECURSIVE cog_traverse_node(_, _, _)
cog_traverse_node(node, language, level) ==
    LET control == node.type \in {"if_statement", "while_statement", "for_statement"}
        add == IF language = "python"
               THEN (IF control THEN 1 + level
                     ELSE IF node.type \in {"try_statement", "except_clause"} THEN 1 ELSE 0)
               ELSE IF language \in {"javascript", "typescript"}
               THEN (IF control THEN 1 + level
                     ELSE IF node.type \in {"switch_statement", "catch_clause"} THEN 1 ELSE 0)
               ELSE 0
        new_level == IF control \/ node.type = "function_definition"
                     THEN level + 1 ELSE level
    IN  add + SumSeq([i \in 1..Len(node.children) |->
                        cog_traverse_node(node.children[i], language, new_level)])

calculate_cognitive_complexity(tree, language) == cog_traverse_node(tree, language, 0)

RECURSIVE MaxSeq(_)
MaxSeq(s) == IF s = <<>> THEN 0 ELSE Max(Head(s), MaxSeq(Tail(s)))

RECURSIVE depth_traverse_node(_, _)
depth_traverse_node(node, depth) ==
    LET new_depth == IF node.type \in {"if_statement", "while_statement", "for_statement",
                                       "function_definition", "class_definition", "block"}
                     THEN depth + 1 ELSE depth
    IN  Max(depth, MaxSeq([i \in 1..Len(node.children) |->
                             depth_traverse_node(node.children[i], new_depth)]))

calculate_nesting_depth(tree) == depth_traverse_node(tree, 0)

\* ----------------------------------------------- tree-based pattern detector

\* A CodePattern; confidence is held in thousandths (0.8 is 800), location
\* f"Line {n}" as the pair <<"Line", n>>.
\* Mutant: the confidence is given in percent.
CodePattern_percent(type, name, confidence, line) ==
    [pattern_type |-> type, pattern_name |-> name, confidence |-> confidence * 100,
     location |-> <<"Line", line>>, line_number |-> line]

CodePattern(type, name, confidence, line) ==
    [pattern_type |-> type, pattern_name |-> name, confidence |-> confidence,
     location |-> <<"Line", line>>, line_number |-> line]

RECURSIVE traverse_for_long_methods(_, _)
traverse_for_long_methods(node, language) ==
    LET start_line == node.start
        end_line == node.end
        method_length == end_line - start_line
        here == IF language = "python" /\ node.type = "function_definition"
                   /\ method_length > LongMethodThreshold
                THEN <<CodePattern("anti_pattern", "Long Method", 800, start_line + 1)>>
                ELSE <<>>
    IN  here \o Flatten([i \in 1..Len(node.children) |->
                           traverse_for_long_methods(node.children[i], language)])

count_methods(class_node) ==
    LET per_child(child) ==
            IF child.type = "block"
            THEN Cardinality({j \in 1..Len(child.children) :
                                child.children[j].type = "function_definition"})
            ELSE IF child.type = "function_definition" THEN 1 ELSE 0
    IN  SumSeq([i \in 1..Len(class_node.children) |-> per_child(class_node.children[i])])

RECURSIVE traverse_for_god_class(_, _)
traverse_for_god_class(node, language) ==
    LET here == IF language = "python" /\ node.type = "class_definition"
                   /\ count_methods(node) > GodClassThreshold
                THEN <<CodePattern("anti_pattern", "God Class", 700, node.start + 1)>>
                ELSE <<>>
    IN  here \o Flatten([i \in 1..Len(node.children) |->
                           traverse_for_god_class(node.children[i], language)])

detect_anti_patterns(tree, lines, language) ==
    traverse_for_long_methods(tree, language) \o traverse_for_god_class(tree, language)

detect_design_patterns(tree, lines, language) ==
    IF language = "python"
    THEN Flatten([i \in 1..Len(lines) |->
                    IF Contains(lines[i], "__new__") /\ Contains(lines[i], "cls")
                    THEN <<CodePattern("design_pattern", "Singleton", 600, i)>>
                    ELSE <<>>])
    ELSE <<>>

\* Mutant: the design patterns are put before the anti-patterns.
detect_code_patterns_design_first(tree, lines, language) ==
    detect_design_patterns(tree, lines, language) \o detect_anti_patterns(tree, lines, language)

detect_code_patterns(tree, lines, language) ==
    detect_anti_patterns(tree, lines, language) \o detect_design_patterns(tree, lines, language)

\* ------------------------------------------------------- quality metrics

\* Floats are held in thousandths, rounded toward zero.
\* cc ** 0.23 in thousandths, for cc = 1..32 (the last entry stands for larger cc).
Pow023 ==
    <<1000, 1173, 1287, 1376, 1448, 1510, 1564, 1613, 1658, 1698, 1736, 1771, 1804,
      1835, 1864, 1892, 1919, 1944, 1968, 1992, 2014, 2036, 2057, 2077, 2097, 2116,
      2134, 2152, 2169, 2186, 2203, 2219>>

RECURSIVE ISqrtBetween(_, _, _)
ISqrtBetween(v, lo, hi) ==
    IF lo >= hi THEN lo
    ELSE LET mid == (lo + hi + 1) \div 2
         IN  IF mid * mid <= v THEN ISqrtBetween(v, mid, hi) ELSE ISqrtBetween(v, lo, mid - 1)

\* loc ** 0.5 in thousandths (loc below 2147, so that the products fit).
SqrtMilli(loc) == ISqrtBetween(loc * 1000000, 0, 46340)

\* Mutant: the result is not clamped.
calculate_maintainability_index_unclamped(cyclomatic_complexity, loc) ==
    IF loc = 0 THEN 100000
    ELSE LET cc == Max(cyclomatic_complexity, 1)
             raw == 171000 - (52 * Pow023[Min(cc, Len(Pow023))]) \div 10 - 230 * cc
                    - (162 * SqrtMilli(loc)) \div 10
         IN  (raw * 100) \div 171

calculate_maintainability_index(cyclomatic_complexity, loc) ==
    IF loc = 0 THEN 100000
    ELSE LET cc == Max(cyclomatic_complexity, 1)
             raw == 171000 - (52 * Pow023[Min(cc, Len(Pow023))]) \div 10 - 230 * cc
                    - (162 * SqrtMilli(loc)) \div 10
             mi == IF raw <= 0 THEN 0 ELSE (raw * 100) \div 171
         IN  Min(100000, mi)

\* ---------------------------------------------------- file metrics extractor

\* DependencyInfo() with its defaults; the enumerated sources hold no import
\* statement, so analyze_dependencies finds nothing to list either.
DependencyInfo == [imports |-> <<>>, exports |-> <<>>, internal_deps |-> <<>>,
                   external_deps |-> <<>>]

NonBlankCount(lines) == Cardinality({i \in 1..Len(lines) : ~IsBlankLine(lines[i])})

basic_file_metrics(file_path, lines) ==
    [kind |-> "FileMetrics",
     file_path |-> file_path,
     language |-> "unknown",
     lines_of_code |-> NonBlankCount(lines),
     complexity |-> [cyclomatic_complexity |-> 0, cognitive_complexity |-> 0,
                     nesting_depth |-> 0, function_length |-> 0],
     quality |-> [maintainability_index |-> 50000, technical_debt_ratio |-> 500,
                  code_duplication |-> 0, test_coverage |-> 0],
     dependencies |-> DependencyInfo,
     patterns |-> <<>>]

\* The body of analyze_file_enhanced's try block: the FileMetrics, or the
\* exception raised by Parser()/parse when parser_raises.
try_analyze_file_enhanced(language, file_path, src, parser_raises) ==
    LET flavour == FlavourOf(language)
        lines == Render(flavour, src)
    IN  IF parser_raises THEN [kind |-> "raised"]
        ELSE LET tree == Parse(flavour, src)
                 loc == NonBlankCount(lines)
                 cc == calculate_cyclomatic_complexity(tree, language)
                 maintainability == calculate_maintainability_index(cc, loc)
             IN  [kind |-> "FileMetrics",
                  file_path |-> file_path,
                  language |-> language,
                  lines_of_code |-> loc,
                  complexity |-> [cyclomatic_complexity |-> cc,
                                  cognitive_complexity |->
                                      calculate_cognitive_complexity(tree, language),
                                  nesting_depth |-> calculate_nesting_depth(tree),
                                  function_length |-> loc],
                  quality |-> [maintainability_index |-> maintainability,
                               technical_debt_ratio |->
                                   Max(0, (100000 - maintainability) \div 100),
                               code_duplication |-> 0, test_coverage |-> 0],
                  dependencies |-> DependencyInfo,
                  patterns |-> detect_code_patterns(tree, lines, language)]

\* Mutant: no except clause, the parser's exception reaches the caller.
analyze_file_enhanced_propagates(loaded, file_path, src, parser_raises) ==
    LET language == detect_language(file_path.name)
        lines == Render(FlavourOf(language), src)
    IN  IF language = NoLanguage \/ language \notin loaded
        THEN basic_file_metrics(file_path, lines)
        ELSE try_analyze_file_enhanced(language, file_path, src, parser_raises)

\* analyze_file_enhanced(file_path, content) on an analyzer whose loaded grammars
\* are `loaded`; parser_raises says whether Parser()/parse raises for this call.
analyze_file_enhanced(loaded, file_path, src, parser_raises) ==
    LET language == detect_language(file_path.name)
        lines == Render(FlavourOf(language), src)
    IN  IF language = NoLanguage \/ language \notin loaded
        THEN basic_file_metrics(file_path, lines)
        ELSE LET attempt == try_analyze_file_enhanced(language, file_path, src, parser_raises)
             IN  IF attempt.kind = "raised"
                 THEN basic_file_metrics(file_path, lines)
                 ELSE attempt

\* ----------------------------------------------- line-based pattern detector

\* The loop from line i on: every line is counted up to the first line that is
\* not blank and indented no deeper than indent_level, where the loop breaks.
count_method_lines_from(lines, i, indent_level) ==
    LET breaks == {j \in i..Len(lines) :
                      ~IsBlankLine(lines[j]) /\ lines[j].indent <= indent_level}
    IN  IF breaks = {} THEN Max(0, Len(lines) - i + 1)
        ELSE (CHOOSE j \in breaks : \A k \in breaks : j <= k) - i

\* start_line is the 1-based index of the line (the code's start_line + 1).
count_method_lines(lines, start_line) ==
    count_method_lines_from(lines, start_line + 1, lines[start_line].indent)

PatternEntry(pattern, filename, line, confidence) ==
    [pattern |-> pattern, file |-> filename, line |-> line, confidence |-> confidence]

detect_file_patterns(lines, filename) ==
    LET design(i) ==
            (IF Contains(lines[i], "singleton") \/ Contains(lines[i], "__new__")
             THEN <<PatternEntry("Singleton", filename, i, 700)>> ELSE <<>>)
            \o (IF Contains(lines[i], "factory") /\ Contains(lines[i], "create")
                THEN <<PatternEntry("Factory", filename, i, 600)>> ELSE <<>>)
            \o (IF Contains(lines[i], "observer") \/ Contains(lines[i], "subscribe")
                THEN <<PatternEntry("Observer", filename, i, 600)>> ELSE <<>>)
        method_count == Cardinality({j \in 1..Len(lines) : Contains(lines[j], "def ")})
        anti(i) ==
            (IF Contains(lines[i], "class") /\ method_count > GodClassThreshold
             THEN <<PatternEntry("God Class", filename, i, 800)>> ELSE <<>>)
            \o (IF Contains(lines[i], "def ")
                   /\ count_method_lines(lines, i) > LongMethodThreshold
                THEN <<PatternEntry("Long Method", filename, i, 700)>> ELSE <<>>)
        smell(i) ==
            IF Contains(lines[i], "unused") \/ Contains(lines[i], "deprecated")
            THEN <<PatternEntry("Dead Code", filename, i, 600)>> ELSE <<>>
    IN  [kind |-> "patterns",
         design_patterns |-> Flatten([i \in 1..Len(lines) |-> design(i)]),
         anti_patterns |-> Flatten([i \in 1..Len(lines) |-> anti(i)]),
         code_smells |-> Flatten([i \in 1..Len(lines) |-> smell(i)])]

\* --------------------------------------------------- analyze_file (dict)

\* Mutant: only the lines with text are counted as lines_of_code.
basic_analysis_text_lines_only(lines) ==
    [lines_of_code |-> NonBlankCount(lines),
     non_empty_lines |-> NonBlankCount(lines),
     blank_lines |-> Cardinality({i \in 1..Len(lines) : IsBlankLine(lines[i])}),
     language |-> "unknown",
     functions |-> 0, classes |-> 0, imports |-> 0, comments |-> 0]

basic_analysis(lines) ==
    [lines_of_code |-> Len(lines),
     non_empty_lines |-> NonBlankCount(lines),
     blank_lines |-> Cardinality({i \in 1..Len(lines) : IsBlankLine(lines[i])}),
     language |-> "unknown",
     functions |-> 0, classes |-> 0, imports |-> 0, comments |-> 0]

enhanced_basic_analysis(lines, language) ==
    LET \* len([line for line in lines if Test(line)])
        CountLines(ls, Test(_)) == Cardinality({i \in 1..Len(ls) : Test(ls[i])})
        has(x) == CountLines(lines, LAMBDA l : Contains(l, x))
        starts(xs) == CountLines(lines, LAMBDA l : \E x \in xs : StartsWith(l, x))
        call(l) == Contains(l, "(") /\ Contains(l, ")")
        slashes == starts({"//", "/*"})
        c == CASE language = "python" ->
                    [f |-> starts({"def "}), c |-> starts({"class "}),
                     i |-> starts({"import ", "from "}), m |-> starts({"#"})]
               [] language \in {"javascript", "typescript"} ->
                    [f |-> CountLines(lines, LAMBDA l : Contains(l, "function ")
                                \/ Contains(l, "=>") \/ (call(l) /\ Contains(l, "{"))),
                     c |-> has("class "), i |-> starts({"import ", "require("}),
                     m |-> slashes]
               [] language = "java" ->
                    [f |-> CountLines(lines, LAMBDA l : Contains(l, "public ") /\ call(l)),
                     c |-> has("class "), i |-> starts({"import "}), m |-> slashes]
               [] language = "cpp" ->
                    [f |-> CountLines(lines, LAMBDA l : Contains(l, "{") /\ call(l)),
                     c |-> has("class "), i |-> starts({"#include"}), m |-> slashes]
               [] language = "rust" ->
                    [f |-> has("fn "), c |-> has("struct "), i |-> starts({"use "}),
                     m |-> slashes]
               [] language = "go" ->
                    [f |-> has("func "), c |-> has("type "), i |-> starts({"import "}),
                     m |-> slashes]
               [] language = "c" ->
                    [f |-> CountLines(lines, LAMBDA l : Contains(l, "{") /\ call(l)),
                     c |-> 0, i |-> starts({"#include"}), m |-> slashes]
               [] language = "cmake" ->
                    [f |-> CountLines(lines, LAMBDA l : call(l) /\ ~StartsWith(l, "#")),
                     c |-> 0,
                     i |-> starts({"find_package", "include", "add_subdirectory"}),
                     m |-> starts({"#"})]
               [] language = "makefile" ->
                    [f |-> CountLines(lines, LAMBDA l : Contains(l, ":") /\ ~StartsWith(l, "#")),
                     c |-> 0, i |-> starts({"include "}), m |-> starts({"#"})]
               [] language = "dockerfile" ->
                    [f |-> starts({"RUN ", "CMD ", "ENTRYPOINT "}), c |-> 0,
                     i |-> starts({"FROM ", "COPY ", "ADD "}), m |-> starts({"#"})]
               [] language = "html" ->
                    [f |-> CountLines(lines, LAMBDA l : Contains(l, "<script")
                                \/ Contains(l, "function")),
                     c |-> has("class="), i |-> starts({"<link", "<script", "<style"}),
                     m |-> starts({"<!--", "//"})]
               [] language = "sql" ->
                    [f |-> CountLines(lines, LAMBDA l : Contains(l, "CREATE FUNCTION")
                                \/ Contains(l, "CREATE PROCEDURE")),
                     c |-> 0, i |-> starts({"USE ", "IMPORT ", "INCLUDE "}),
                     m |-> starts({"--", "/*"})]
               [] OTHER -> [f |-> 0, c |-> 0, i |-> 0, m |-> 0]
    IN  [lines_of_code |-> Len(lines),
         non_empty_lines |-> NonBlankCount(lines),
         blank_lines |-> Cardinality({i \in 1..Len(lines) : IsBlankLine(lines[i])}),
         language |-> language,
         functions |-> c.f, classes |-> c.c, imports |-> c.i, comments |-> c.m]

analyze_ast(tree, lines, language) ==
    LET n(kinds) == LET types == TypesOfTree(tree)
                    IN  Cardinality({i \in 1..Len(types) : types[i] \in kinds})
        counts ==
            CASE language = "python" ->
                    [functions |-> n({"function_definition"}),
                     classes |-> n({"class_definition"}),
                     imports |-> n({"import_statement", "import_from_statement"}),
                     comments |-> n({"comment"})]
              [] language \in {"javascript", "typescript"} ->
                    [functions |-> n({"function_declaration", "arrow_function",
                                      "function_expression"}),
                     classes |-> n({"class_declaration"}),
                     imports |-> n({"import_statement", "import_clause"}),
                     comments |-> n({"comment", "line_comment", "block_comment"})]
              [] language = "java" ->
                    [methods |-> n({"method_declaration"}),
                     classes |-> n({"class_declaration"}),
                     imports |-> n({"import_declaration"}),
                     comments |-> n({"line_comment", "block_comment"})]
              [] language = "cpp" ->
                    [functions |-> n({"function_definition"}),
                     classes |-> n({"class_specifier"}),
                     includes |-> n({"preproc_include"}),
                     comments |-> n({"comment", "line_comment", "block_comment"})]
              [] language = "rust" ->
                    [functions |-> n({"function_item"}), structs |-> n({"struct_item"}),
                     imports |-> n({"use_declaration"}),
                     comments |-> n({"line_comment", "block_comment"})]
              [] language = "go" ->
                    [functions |-> n({"function_declaration"}),
                     structs |-> n({"type_declaration"}),
                     imports |-> n({"import_declaration"}),
                     comments |-> n({"comment", "line_comment"})]
              [] OTHER -> EmptyMap
    IN  [lines_of_code |-> Len(lines),
         non_empty_lines |-> NonBlankCount(lines),
         blank_lines |-> Cardinality({i \in 1..Len(lines) : IsBlankLine(lines[i])}),
         language |-> language] @@ counts

\* analyze_file(file_path, content): the statistics dict of one file.
analyze_file(loaded, file_path, src, parser_raises) ==
    LET language == detect_language(file_path.name)
        flavour == FlavourOf(language)
        lines == Render(flavour, src)
    IN  IF language # NoLanguage /\ language \notin loaded
        THEN enhanced_basic_analysis(lines, language)
        ELSE IF language = NoLanguage THEN basic_analysis(lines)
        ELSE IF parser_raises THEN enhanced_basic_analysis(lines, language)
        ELSE analyze_ast(Parse(flavour, src), lines, language)

\* ------------------------------------------------------ repository walk

\* A directory name is [dot, stem]: an optional leading "." and the rest.
DirName(dot, stem) == [dot |-> dot, stem |-> stem]

\* The one directory that exists on disk; every other path does not exist.
RepoRoot == "repo"

\* os.path.exists(repo_path)
os_path_exists(repo_path) == repo_path = RepoRoot

\* `d.startswith(".")`
IsHidden(name) == name.dot

ignore_list == {"node_modules", "__pycache__", "venv", "env"}

\* The files os.walk(repo_path) yields, in its order, when the caller removes from
\* dirs[:] every hidden directory and every directory named in `ignored`.  `files`
\* are the files below RepoRoot in walk order.
os_walk(files, repo_path, ignored) ==
    IF os_path_exists(repo_path)
    THEN SelectSeq(files, LAMBDA f : \A i \in 1..Len(f.path.dirs) :
                                        /\ ~IsHidden(f.path.dirs[i])
                                        /\ f.path.dirs[i].stem \notin ignored)
    ELSE <<>>

\* content.splitlines() of the file's text.
FileText(f) == Render(FlavourOf(detect_language(f.path.name)), f.src)

\* ------------------------------------------------- repository statistics

\* Mutant: the language's line counter is not advanced.
count_language_files_only(languages_map, lang, loc) ==
    IF lang \in DOMAIN languages_map
    THEN [languages_map EXCEPT ![lang].files = @ + 1]
    ELSE languages_map @@ (lang :> [files |-> 1, lines |-> 0])

\* The per-language counters after one more file of `lang` with `loc` lines.
count_language(languages_map, lang, loc) ==
    LET present == IF lang \in DOMAIN languages_map THEN languages_map
                   ELSE languages_map @@ (lang :> [files |-> 0, lines |-> 0])
    IN  [present EXCEPT ![lang].files = @ + 1, ![lang].lines = @ + loc]

\* Mutant: the statistics of the previous call are kept on the analyzer.
carried_stats ==
    IF op = "analyze_repository" /\ "total_files" \in DOMAIN ret
    THEN ret
    ELSE [total_files |-> 0, total_lines |-> 0, languages |-> EmptyMap,
          file_types |-> EmptyMap, largest_files |-> <<>>, complexity_score |-> 0,
          quality_metrics |-> [maintainability_index |-> 0, technical_debt_ratio |-> 0,
                               code_duplication |-> 0, test_coverage |-> 0],
          code_patterns |-> [design_patterns |-> <<>>, anti_patterns |-> <<>>,
                             code_smells |-> <<>>],
          architecture_score |-> 0, hotspots |-> <<>>]

\* The `stats` dict analyze_repository starts from.
initial_stats ==
    [total_files |-> 0, total_lines |-> 0, languages |-> EmptyMap,
     file_types |-> EmptyMap, largest_files |-> <<>>, complexity_score |-> 0,
     quality_metrics |-> [maintainability_index |-> 0, technical_debt_ratio |-> 0,
                          code_duplication |-> 0, test_coverage |-> 0],
     code_patterns |-> [design_patterns |-> <<>>, anti_patterns |-> <<>>,
                        code_smells |-> <<>>],
     architecture_score |-> 0, hotspots |-> <<>>]

\* Mutant: the file is counted before it is opened.
process_file_counts_first(stats, loaded, f) ==
    IF IsHidden(f.path.name) \/ ~is_code_file(f.path.name) THEN stats
    ELSE IF ~f.readable THEN [stats EXCEPT !.total_files = @ + 1]
    ELSE Only({LET lang == IF "language" \in DOMAIN file_stats THEN file_stats.language
                           ELSE "unknown"
                   ext == Lower(f.path.name.ext)
               IN  [stats EXCEPT
                      !.total_files = @ + 1,
                      !.total_lines = @ + file_stats.lines_of_code,
                      !.languages = count_language(@, lang, file_stats.lines_of_code),
                      !.file_types = IF ext \in DOMAIN @ THEN [@ EXCEPT ![ext] = @ + 1]
                                     ELSE @ @@ (ext :> 1),
                      !.largest_files = Append(@, [path |-> f.path,
                                                   lines |-> file_stats.lines_of_code,
                                                   language |-> lang])] :
               file_stats \in {analyze_file(loaded, f.path, f.src, ~f.parses)}})

\* The body of analyze_repository's loop for one file of the walk: hidden and
\* non-code files are passed over; open() raising for an unreadable file leaves
\* stats as they were; otherwise the file's statistics are folded in.
process_file(stats, loaded, f) ==
    IF IsHidden(f.path.name) \/ ~is_code_file(f.path.name) THEN stats
    ELSE IF ~f.readable THEN stats
    ELSE Only({LET lang == IF "language" \in DOMAIN file_stats THEN file_stats.language
                           ELSE "unknown"
                   ext == Lower(f.path.name.ext)
               IN  [stats EXCEPT
                      !.total_files = @ + 1,
                      !.total_lines = @ + file_stats.lines_of_code,
                      !.languages = count_language(@, lang, file_stats.lines_of_code),
                      !.file_types = IF ext \in DOMAIN @ THEN [@ EXCEPT ![ext] = @ + 1]
                                     ELSE @ @@ (ext :> 1),
                      !.largest_files = Append(@, [path |-> f.path,
                                                   lines |-> file_stats.lines_of_code,
                                                   language |-> lang])] :
               file_stats \in {analyze_file(loaded, f.path, f.src, ~f.parses)}})

\* The loop of analyze_repository over the files of the walk.
RECURSIVE walk_files(_, _, _)
walk_files(stats, loaded, files) ==
    IF files = <<>> THEN stats
    ELSE IF Len(files) = 1 THEN process_file(stats, loaded, files[1])
    ELSE LET h == Len(files) \div 2
         IN  Only({walk_files(s, loaded, SubSeq(files, h + 1, Len(files))) :
                      s \in {walk_files(stats, loaded, SubSeq(files, 1, h))}})

\* list.sort(key=lambda x: x["lines"], reverse=True): stable, largest first.
\* Mutant: among entries with as many lines the later one comes first (an
\* ascending sort that is then reversed).
sort_by_lines_desc_ties_reversed(s) ==
    LET before(i) == Cardinality({j \in 1..Len(s) :
                                     \/ s[j].lines > s[i].lines
                                     \/ (s[j].lines = s[i].lines /\ j > i)})
    IN  [k \in 1..Len(s) |-> s[CHOOSE i \in 1..Len(s) : before(i) = k - 1]]

\* Entry i comes after the entries with more lines and after the earlier entries
\* with as many.
sort_by_lines_desc(s) ==
    LET before(i) == Cardinality({j \in 1..Len(s) :
                                     \/ s[j].lines > s[i].lines
                                     \/ (s[j].lines = s[i].lines /\ j < i)})
    IN  [k \in 1..Len(s) |-> s[CHOOSE i \in 1..Len(s) : before(i) = k - 1]]

\* s[:n]
Take(s, n) == SubSeq(s, 1, Min(n, Len(s)))

\* Floats are in thousandths.
calculate_complexity_score(stats) ==
    IF stats.total_files = 0 THEN 0
    ELSE LET total_lines == stats.total_lines
             total_files == stats.total_files
             avg_file_size == (total_lines * 1000) \div Max(total_files, 1)
             file_complexity == Min(avg_file_size \div 200, 1000)
             language_complexity ==
                 Min((Cardinality(DOMAIN stats.languages) * 1000) \div 3, 1000)
             size_complexity == Min((total_lines * 1000) \div 5000, 1000)
         IN  (file_complexity * 5 + language_complexity * 3 + size_complexity * 2) \div 10

calculate_quality_metrics(stats) ==
    LET total_files == stats.total_files
        total_lines == stats.total_lines
        complexity == stats.complexity_score
    IN  IF total_files = 0
        THEN [maintainability_index |-> 0, technical_debt_ratio |-> 1000,
              code_duplication |-> 0, test_coverage |-> 0]
        ELSE [maintainability_index |-> Max(0, 100000 - complexity * 20 - total_lines),
              technical_debt_ratio |-> Min(1000, complexity \div 10 + total_lines \div 10),
              code_duplication |-> Min(500, total_files),
              test_coverage |-> Min(900, total_files * 10)]

\* The body of _detect_code_patterns_repository's loop for one file.
merge_file_patterns(patterns, f) ==
    IF ~is_code_file(f.path.name) \/ ~f.readable THEN patterns
    ELSE LET file_patterns == detect_file_patterns(FileText(f), f.path.name)
         IN  [design_patterns |-> patterns.design_patterns \o file_patterns.design_patterns,
              anti_patterns |-> patterns.anti_patterns \o file_patterns.anti_patterns,
              code_smells |-> patterns.code_smells \o file_patterns.code_smells]

\* The loop of _detect_code_patterns_repository over the files of its walk.
RECURSIVE walk_patterns(_, _)
walk_patterns(patterns, files) ==
    IF files = <<>> THEN patterns
    ELSE IF Len(files) = 1 THEN merge_file_patterns(patterns, files[1])
    ELSE LET h == Len(files) \div 2
         IN  Only({walk_patterns(p, SubSeq(files, h + 1, Len(files))) :
                      p \in {walk_patterns(patterns, SubSeq(files, 1, h))}})

detect_code_patterns_repository(files, repo_path) ==
    walk_patterns([design_patterns |-> <<>>, anti_patterns |-> <<>>, code_smells |-> <<>>],
                  os_walk(files, repo_path, {}))

\* Mutant: the penalty for a very large file is forgotten.
calculate_architecture_score_simple_no_size_penalty(stats) ==
    IF stats.total_files = 0 THEN 0
    ELSE LET base == Min(100, stats.total_files * 2) * 1000
             s1 == IF Cardinality(DOMAIN stats.languages) > 5 THEN (base * 8) \div 10
                   ELSE base
             s3 == IF stats.complexity_score > 700 THEN (s1 * 6) \div 10 ELSE s1
         IN  Min(100000, s3)

calculate_architecture_score_simple(stats) ==
    IF stats.total_files = 0 THEN 0
    ELSE LET base == Min(100, stats.total_files * 2) * 1000
             s1 == IF Cardinality(DOMAIN stats.languages) > 5 THEN (base * 8) \div 10
                   ELSE base
             s2 == IF stats.largest_files # <<>> /\ stats.largest_files[1].lines > 1000
                   THEN (s1 * 7) \div 10 ELSE s1
             s3 == IF stats.complexity_score > 700 THEN (s2 * 6) \div 10 ELSE s2
         IN  Min(100000, s3)

\* Mutant: a file of exactly 1000 lines is already rated "high".
identify_hotspots_high_from_1000(stats, language_order) ==
    LET top5 == Take(stats.largest_files, 5)
        large == [i \in 1..Len(top5) |->
                    IF top5[i].lines > 500
                    THEN <<[type |-> "large_file", file |-> top5[i].path,
                            lines |-> top5[i].lines,
                            severity |-> IF top5[i].lines >= 1000 THEN "high" ELSE "medium"]>>
                    ELSE <<>>]
        complex == IF stats.complexity_score > 800
                   THEN <<[type |-> "high_complexity", file |-> "repository", lines |-> 0,
                           severity |-> "high"]>>
                   ELSE <<>>
    IN  Take(Flatten(large) \o complex, TopN)

\* language_order: the keys of stats["languages"] in insertion order.
identify_hotspots(stats, language_order) ==
    LET top5 == Take(stats.largest_files, 5)
        large == [i \in 1..Len(top5) |->
                    IF top5[i].lines > 500
                    THEN <<[type |-> "large_file", file |-> top5[i].path,
                            lines |-> top5[i].lines,
                            severity |-> IF top5[i].lines > 1000 THEN "high" ELSE "medium"]>>
                    ELSE <<>>]
        complex == IF stats.complexity_score > 800
                   THEN <<[type |-> "high_complexity", file |-> "repository", lines |-> 0,
                           severity |-> "high"]>>
                   ELSE <<>>
        mono == [i \in 1..Len(language_order) |->
                    LET lang == language_order[i]
                    IN  IF stats.languages[lang].files > 100
                        THEN <<[type |-> "monolith", file |-> <<lang, "files">>,
                                lines |-> stats.languages[lang].lines,
                                severity |-> "medium"]>>
                        ELSE <<>>]
    IN  Take(Flatten(large) \o complex \o Flatten(mono), TopN)

\* The distinct elements of s in the order of their first occurrence.
FirstOccurrences(s) ==
    LET first == {i \in 1..Len(s) : \A j \in 1..(i - 1) : s[j] # s[i]}
    IN  [k \in 1..Cardinality(first) |->
            s[CHOOSE i \in first : Cardinality({j \in first : j < i}) = k - 1]]

\* analyze_repository once the root is known to exist: the walk, then the
\* derived statistics.
aggregate_repository(loaded, files, repo_path) ==
    LET walked == {walk_files(initial_stats, loaded, os_walk(files, repo_path, ignore_list))}
        sorted == {[stats |-> [w EXCEPT !.largest_files = Take(sort_by_lines_desc(@), TopN)],
                    language_order |->
                        FirstOccurrences([i \in 1..Len(w.largest_files) |->
                                            w.largest_files[i].language])] : w \in walked}
        s2 == {[s EXCEPT !.stats.complexity_score = calculate_complexity_score(s.stats)] :
                  s \in sorted}
        s3 == {[s EXCEPT !.stats.quality_metrics = calculate_quality_metrics(s.stats)] :
                  s \in s2}
        s4 == {[s EXCEPT !.stats.code_patterns =
                             detect_code_patterns_repository(files, repo_path)] : s \in s3}
        s5 == {[s EXCEPT !.stats.architecture_score =
                             calculate_architecture_score_simple(s.stats)] : s \in s4}
    IN  Only({[s.stats EXCEPT !.hotspots = identify_hotspots(s.stats, s.language_order)] :
                 s \in s5})

\* Mutant: the existence check is missing.
analyze_repository_unchecked(loaded, files, repo_path) ==
    aggregate_repository(loaded, files, repo_path)

analyze_repository(loaded, files, repo_path) ==
    IF ~os_path_exists(repo_path)
    THEN [error |-> "Repository path does not exist"]
    ELSE aggregate_repository(loaded, files, repo_path)

\* ------------------------------------------------- RepositoryMetrics

\* RepositoryMetrics(total_files, total_lines, languages, avg_complexity,
\* avg_maintainability, hotspots, architecture_score)
RepositoryMetrics(files, lines, langs, avg_cc, avg_mi, hotspots, score) ==
    [kind |-> "RepositoryMetrics", total_files |-> files, total_lines |-> lines,
     languages |-> langs, avg_complexity |-> avg_cc, avg_maintainability |-> avg_mi,
     hotspots |-> hotspots, architecture_score |-> score]

\* Mutant: a repository without files is scored as flawless.
calculate_architecture_score_empty_is_perfect(file_metrics) ==
    IF file_metrics = <<>> THEN 100000
    ELSE LET n == Len(file_metrics)
             total_maintainability ==
                 SumSeq([i \in 1..n |-> file_metrics[i].quality.maintainability_index])
         IN  Max(0, Min(100000, total_maintainability \div n))

calculate_architecture_score(file_metrics) ==
    IF file_metrics = <<>> THEN 0
    ELSE LET n == Len(file_metrics)
             total_maintainability ==
                 SumSeq([i \in 1..n |-> file_metrics[i].quality.maintainability_index])
             avg_maintainability == total_maintainability \div n
             of_type(t) ==
                 SumSeq([i \in 1..n |->
                            Len(SelectSeq(file_metrics[i].patterns,
                                          LAMBDA p : p.pattern_type = t))])
             pattern_penalty == Min(of_type("anti_pattern") * 2, 20) * 1000
             pattern_bonus == Min(of_type("design_pattern") * 1, 10) * 1000
         IN  Max(0, Min(100000, avg_maintainability - pattern_penalty + pattern_bonus))

\* The body of analyze_repository_enhanced's loop for one file of the walk.
process_file_enhanced(acc, loaded, f) ==
    IF IsHidden(f.path.name) \/ ~is_code_file(f.path.name) THEN acc
    ELSE IF ~f.readable THEN acc
    ELSE Only({LET known == metrics.language # "unknown"
               IN  [acc EXCEPT
                      !.file_metrics = Append(@, metrics),
                      !.total_complexity =
                          @ + (IF known THEN metrics.complexity.cyclomatic_complexity ELSE 0),
                      !.total_maintainability =
                          @ + (IF known THEN metrics.quality.maintainability_index ELSE 0),
                      !.analyzed_files = @ + (IF known THEN 1 ELSE 0)] :
               metrics \in {analyze_file_enhanced(loaded, f.path, f.src, ~f.parses)}})

\* The loop of analyze_repository_enhanced over the files of the walk.
RECURSIVE walk_files_enhanced(_, _, _)
walk_files_enhanced(acc, loaded, files) ==
    IF files = <<>> THEN acc
    ELSE IF Len(files) = 1 THEN process_file_enhanced(acc, loaded, files[1])
    ELSE LET h == Len(files) \div 2
         IN  Only({walk_files_enhanced(a, loaded, SubSeq(files, h + 1, Len(files))) :
                      a \in {walk_files_enhanced(acc, loaded, SubSeq(files, 1, h))}})

\* `for fm in file_metrics:` building the per-language counters.
RECURSIVE count_languages(_, _)
count_languages(languages_map, file_metrics) ==
    IF file_metrics = <<>> THEN languages_map
    ELSE IF Len(file_metrics) = 1
    THEN count_language(languages_map, file_metrics[1].language,
                        file_metrics[1].lines_of_code)
    ELSE LET h == Len(file_metrics) \div 2
         IN  Only({count_languages(m, SubSeq(file_metrics, h + 1, Len(file_metrics))) :
                      m \in {count_languages(languages_map, SubSeq(file_metrics, 1, h))}})

analyze_repository_enhanced(loaded, files, repo_path) ==
    IF ~os_path_exists(repo_path)
    THEN RepositoryMetrics(0, 0, EmptyMap, 0, 0, <<>>, 0)
    ELSE Only({
        LET file_metrics == acc.file_metrics
            total_files == Len(file_metrics)
            total_lines == SumSeq([i \in 1..total_files |-> file_metrics[i].lines_of_code])
            languages_map == count_languages(EmptyMap, file_metrics)
            hotspots ==
                Flatten([i \in 1..total_files |->
                           IF file_metrics[i].complexity.cyclomatic_complexity > 10
                              \/ file_metrics[i].quality.maintainability_index < 50000
                           THEN <<file_metrics[i].file_path>> ELSE <<>>])
        IN  RepositoryMetrics(
                total_files, total_lines, languages_map,
                (acc.total_complexity * 1000) \div Max(acc.analyzed_files, 1),
                acc.total_maintainability \div Max(acc.analyzed_files, 1),
                Take(hotspots, TopN),
                calculate_architecture_score(file_metrics)) :
        acc \in {walk_files_enhanced([file_metrics |-> <<>>, total_complexity |-> 0,
                                      total_maintainability |-> 0, analyzed_files |-> 0],
                                     loaded, os_walk(files, repo_path, ignore_list))}})

\* ------------------------------------------------ specification: one file

\* Grammars _setup_language_parsers can load; each load may fail on its own.
AllGrammars == {"python", "javascript", "typescript", "java", "cpp", "rust", "go"}

GrammarSets == {AllGrammars, AllGrammars \ {"python"}}

FileNames ==
    {FileName("test", ".py"), FileName("app", ".js"), FileName("main", ".cpp"),
     FileName("Main", ".java"), FileName("data", ".xyz")}

Path(dirs, name) == [dirs |-> dirs, name |-> name]

\* A file on disk: its path, its text (as a source description), whether it can
\* be read, and whether the parser accepts it (FALSE: Parser()/parse raises).
File(dirs, name, src, readable, parses) ==
    [path |-> Path(dirs, name), src |-> src, readable |-> readable, parses |-> parses]

\* The analyzer is constructed and one file is at hand.
InitFile ==
    /\ languages \in GrammarSets
    /\ fs \in {<<File(<<>>, name, src, TRUE, parses)>> :
                    name \in FileNames, src \in Sources, parses \in BOOLEAN}
    /\ op = "init"
    /\ arg = NoValue
    /\ ret = NoValue
    /\ prev = NoValue
    /\ cache_dir = <<>>
    /\ now = 0
    /\ analyses = <<>>
    /\ response_cache = NoValue
    /\ cost_monitor = NoValue

\* A caller hands the file to analyze_file_enhanced.
AnalyzeFileEnhanced ==
    /\ op' = "analyze_file_enhanced"
    /\ arg' = fs[1].path
    /\ ret' = analyze_file_enhanced(languages, fs[1].path, fs[1].src, ~fs[1].parses)
    /\ UNCHANGED <<languages, fs, response_cache, cost_monitor, prev, cache_dir, now, analyses>>

\* A caller hands the text of the file to _detect_file_patterns.
DetectFilePatterns ==
    /\ op' = "_detect_file_patterns"
    /\ arg' = fs[1].path
    /\ ret' = detect_file_patterns(
                  Render(FlavourOf(detect_language(fs[1].path.name)), fs[1].src),
                  fs[1].path.name)
    /\ UNCHANGED <<languages, fs, response_cache, cost_monitor, prev, cache_dir, now, analyses>>

\* A caller hands the file to analyze_file.
AnalyzeFile ==
    /\ op' = "analyze_file"
    /\ arg' = fs[1].path
    /\ ret' = analyze_file(languages, fs[1].path, fs[1].src, ~fs[1].parses)
    /\ UNCHANGED <<languages, fs, response_cache, cost_monitor, prev, cache_dir, now, analyses>>

NextFile == AnalyzeFileEnhanced \/ DetectFilePatterns \/ AnalyzeFile

SpecFile == InitFile /\ [][NextFile]_vars

\* --------------------------------------------- specification: a repository

\* The files that may stand below RepoRoot, in the order os.walk yields them: the
\* files of the root, then those of its subdirectories.
Catalogue ==
    <<File(<<>>, FileName("a", ".py"), <<Func(9, "if")>>, TRUE, TRUE),
      File(<<>>, FileName("b", ".js"), <<Func(4, "pass")>>, TRUE, TRUE),
      File(<<>>, FileName("f", ".py"), <<Func(2, "pass"), Blank>>, TRUE, FALSE),
      File(<<>>, FileName("g", ".xyz"), <<Func(2, "pass")>>, TRUE, TRUE),
      File(<<>>, FileName("README", ".md"), <<Blank>>, TRUE, TRUE),
      File(<<>>, HiddenName("hidden", ".py"), <<Func(2, "pass")>>, TRUE, TRUE),
      File(<<DirName(FALSE, "lib")>>, FileName("c", ".py"),
           <<Func(LongMethodThreshold + 1, "pass")>>, FALSE, TRUE),
      File(<<DirName(FALSE, "node_modules")>>, FileName("d", ".py"),
           <<Class(GodClassThreshold + 1, 0)>>, TRUE, TRUE),
      File(<<DirName(TRUE, "git")>>, FileName("e", ".py"),
           <<Func(LongMethodThreshold + 1, "pass")>>, TRUE, TRUE)>>

\* Scenario D: three Python files of 10, 20 and 30 lines and a JavaScript file of 5.
ScenarioD ==
    <<File(<<>>, FileName("p1", ".py"), <<Func(9, "pass")>>, TRUE, TRUE),
      File(<<>>, FileName("p2", ".py"), <<Func(19, "pass")>>, TRUE, TRUE),
      File(<<>>, FileName("p3", ".py"), <<Func(29, "pass")>>, TRUE, TRUE),
      File(<<>>, FileName("s", ".js"), <<Func(4, "pass")>>, TRUE, TRUE)>>

\* Scenario E: a single file of 1200 lines.
ScenarioE ==
    <<File(<<>>, FileName("e", ".py"), <<Func(1199, "pass")>>, TRUE, TRUE)>>

\* Six files above 500 lines: 501, 1001, 1000, 800 (no language), 700 and 600.
ScenarioF ==
    <<File(<<>>, FileName("p1", ".py"), <<Func(500, "pass")>>, TRUE, TRUE),
      File(<<>>, FileName("p2", ".py"), <<Func(1000, "pass")>>, TRUE, TRUE),
      File(<<>>, FileName("p3", ".py"), <<Func(999, "pass")>>, TRUE, TRUE),
      File(<<>>, FileName("g", ".xyz"), <<Func(799, "pass")>>, TRUE, TRUE),
      File(<<>>, FileName("s", ".js"), <<Func(699, "pass")>>, TRUE, TRUE),
      File(<<>>, FileName("p4", ".py"), <<Func(599, "pass")>>, TRUE, TRUE)>>

\* Eleven Python files of 30 lines each.
ScenarioG ==
    LET stems == <<"m01", "m02", "m03", "m04", "m05", "m06", "m07", "m08", "m09", "m10",
                   "m11">>
    IN  [i \in 1..Len(stems) |->
            File(<<>>, FileName(stems[i], ".py"), <<Func(29, "pass")>>, TRUE, TRUE)]

\* Six files of six languages.
ScenarioH ==
    LET exts == <<".py", ".js", ".java", ".cpp", ".go", ".rs">>
    IN  [i \in 1..Len(exts) |->
            File(<<>>, FileName("main", exts[i]), <<Func(2, "pass")>>, TRUE, TRUE)]

\* Fifty-four short Python files, nine in each of six directories.
ScenarioI ==
    LET dirs == <<"api", "config", "schemas", "scripts", "services", "storage">>
        stems == <<"a", "b", "c", "d", "e", "f", "g", "h", "i">>
    IN  [i \in 1..(Len(dirs) * Len(stems)) |->
            File(<<DirName(FALSE, dirs[((i - 1) \div Len(stems)) + 1])>>,
                 FileName(stems[((i - 1) % Len(stems)) + 1], ".py"),
                 <<Func(2, "pass")>>, TRUE, TRUE)]

\* The subsequence of s at the indices in I.
RECURSIVE Pick(_, _)
Pick(s, I) ==
    IF s = <<>> THEN <<>>
    ELSE LET init == Pick(SubSeq(s, 1, Len(s) - 1), I)
         IN  IF Len(s) \in I THEN Append(init, s[Len(s)]) ELSE init

Trees ==
    {Pick(Catalogue, I) : I \in {J \in SUBSET (1..Len(Catalogue)) : Cardinality(J) <= MaxFiles}}
    \cup {ScenarioD, ScenarioE, ScenarioF, ScenarioG, ScenarioH, ScenarioI}

RepoPaths == {RepoRoot, "missing"}

\* The analyzer is constructed and a tree stands below RepoRoot.
InitRepo ==
    /\ languages \in GrammarSets
    /\ fs \in Trees
    /\ op = "init"
    /\ arg = NoValue
    /\ ret = NoValue
    /\ prev = NoValue
    /\ cache_dir = <<>>
    /\ now = 0
    /\ analyses = <<>>
    /\ response_cache = NoValue
    /\ cost_monitor = NoValue

\* What the call just finished was, for comparison with the next one.
ThisCall == [op |-> op, arg |-> arg, ret |-> ret, languages |-> languages]

AnalyzeRepository ==
    \E repo_path \in RepoPaths :
        /\ op' = "analyze_repository"
        /\ arg' = repo_path
        /\ ret' = analyze_repository(languages, fs, repo_path)
        /\ prev' = ThisCall
        /\ UNCHANGED <<languages, fs, response_cache, cost_monitor, cache_dir, now, analyses>>

AnalyzeRepositoryEnhanced ==
    \E repo_path \in RepoPaths :
        /\ op' = "analyze_repository_enhanced"
        /\ arg' = repo_path
        /\ ret' = analyze_repository_enhanced(languages, fs, repo_path)
        /\ prev' = ThisCall
        /\ UNCHANGED <<languages, fs, response_cache, cost_monitor, cache_dir, now, analyses>>

NextRepo == AnalyzeRepository \/ AnalyzeRepositoryEnhanced

SpecRepo == InitRepo /\ [][NextRepo]_vars

\* ------------------------------------------------------ dependencies

\* The text of an import statement is the sequence of its parts; a statement of
\* a module is its node type, its text and whether it stands inside an `if`.
Statement(type, text, guarded) == [type |-> type, text |-> text, guarded |-> guarded]

PythonStatements ==
    {Statement("import_statement", <<"import", "os">>, FALSE),
     Statement("import_from_statement", <<"from", "pathlib", "import", "Path">>, FALSE),
     Statement("import_from_statement",
               <<"from", ".", "local_module", "import", "something">>, FALSE),
     Statement("import_statement", <<"import", "external_package">>, TRUE),
     Statement("import_statement", <<"import", "os", ".", "path">>, FALSE),
     Statement("expression_statement", <<"x", "=", "1", ".", "5">>, FALSE)}

JavaScriptStatements ==
    {Statement("import_statement", <<"import", "React", "from", "'", "react", "'">>, FALSE),
     Statement("import_statement", <<"import", "a", "from", "'", "./", "local", "'">>, FALSE),
     Statement("import_statement", <<"import", "b", "from", "'", "../", "lib", "'">>, TRUE),
     Statement("expression_statement", <<"x", "=", "1", ".", "5">>, FALSE)}

JavaStatements ==
    {Statement("import_declaration", <<"import", "java", ".", "util", ".", "List", ";">>, FALSE),
     Statement("import_declaration", <<"import", "Foo", ";">>, FALSE)}

\* The tree of a module of such statements, one per row; a guarded statement is
\* the only statement of an if_statement's block.
ModuleTree(stmts) ==
    Nd("module", 0, Max(0, Len(stmts) - 1),
       [i \in 1..Len(stmts) |->
            IF stmts[i].guarded
            THEN Nd("if_statement", i - 1, i - 1,
                    <<Nd("block", i - 1, i - 1, <<Leaf(stmts[i].type, i - 1)>>)>>)
            ELSE Leaf(stmts[i].type, i - 1)])

\* content[node.start_byte : node.end_byte].strip() for the statement on a row.
NodeText(stmts, node) == stmts[node.start + 1].text

\* `marker in imp` for the markers ".", "./" and "../".
MarkerIn(marker, imp) ==
    \E i \in 1..Len(imp) :
        \/ imp[i] = marker
        \/ <<marker, imp[i]>> \in {<<".", "./">>, <<".", "../">>, <<"./", "../">>}

\* traverse_node of analyze_dependencies: the import texts in walk order.
RECURSIVE dep_traverse_node(_, _, _)
dep_traverse_node(node, stmts, language) ==
    LET here == IF language = "python"
                THEN (IF node.type \in {"import_statement", "import_from_statement"}
                      THEN <<NodeText(stmts, node)>> ELSE <<>>)
                ELSE IF language \in {"javascript", "typescript"}
                THEN (IF node.type = "import_statement"
                      THEN <<NodeText(stmts, node)>> ELSE <<>>)
                ELSE <<>>
    IN  here \o Flatten([i \in 1..Len(node.children) |->
                           dep_traverse_node(node.children[i], stmts, language)])

\* Mutant: only "./" and "../" mark an import as internal.
classify_dependencies_path_markers_only(imports, k, internal_deps, external_deps) ==
    [imports |-> imports, exports |-> <<>>,
     internal_deps |-> SelectSeq(imports, LAMBDA imp : MarkerIn("./", imp)),
     external_deps |-> SelectSeq(imports, LAMBDA imp : ~MarkerIn("./", imp))]

\* The classification loop from import k on, with the two lists built so far.
RECURSIVE classify_dependencies(_, _, _, _)
classify_dependencies(imports, k, internal_deps, external_deps) ==
    IF k > Len(imports)
    THEN [imports |-> imports, exports |-> <<>>,
          internal_deps |-> internal_deps, external_deps |-> external_deps]
    ELSE IF \E marker \in {".", "./", "../"} : MarkerIn(marker, imports[k])
    THEN classify_dependencies(imports, k + 1, Append(internal_deps, imports[k]),
                               external_deps)
    ELSE classify_dependencies(imports, k + 1, internal_deps,
                               Append(external_deps, imports[k]))

\* analyze_dependencies(tree, content, language) for a module of stmts.
analyze_dependencies(stmts, language) ==
    classify_dependencies(dep_traverse_node(ModuleTree(stmts), stmts, language),
                          1, <<>>, <<>>)

\* ------------------------------------------ specification: direct calls

\* Largest cyclomatic complexity and line count handed to
\* calculate_maintainability_index one by one.
MaxComplexity == 34

MaxLoc == 120

\* Most statements of a module handed to analyze_dependencies.
MaxStatements == 3

\* The modules handed to analyze_dependencies, with their language.
ModuleInputs ==
    {[kind |-> "module", language |-> "python", stmts |-> st] :
        st \in SeqsUpTo(PythonStatements, MaxStatements)}
    \cup {[kind |-> "module", language |-> lang, stmts |-> st] :
            lang \in {"javascript", "typescript"},
            st \in SeqsUpTo(JavaScriptStatements, MaxStatements)}
    \cup {[kind |-> "module", language |-> "java", stmts |-> st] :
            st \in SeqsUpTo(JavaStatements, MaxStatements)}

\* File names handed to detect_language.
DetectNames ==
    {FileName("Makefile", ""), FileName("makefile", ""), FileName("MAKEFILE", ""),
     FileName("Makefile", ".am"), FileName("Makefile", ".in"),
     FileName("Dockerfile", ""), FileName("Dockerfile", ".dev"),
     FileName("CMakeLists", ".txt"), FileName("notes", ".txt"), FileName("file", ".txt"),
     FileName("script", ".sh"), FileName("TEST", ".PY"), FileName("test", ".py"),
     FileName("README", ".md"), FileName("README", ""), FileName("config", ".json"),
     FileName("data", ".csv"), FileName("image", ".png"), FileName("data", ".xyz"),
     HiddenName("bashrc", ""), HiddenName("hidden", ".py")}
    \cup {FileName("main", ext) : ext \in DOMAIN extension_map}

\* The stats dicts handed to _calculate_quality_metrics.
StatsInputs ==
    {[total_files |-> f, total_lines |-> l, complexity_score |-> c] :
        f \in {0, 1, 6, 54}, l \in {0, 3, 65, 1200, 4602, 200000},
        c \in {0, 113, 648, 984, 1000}}

\* The arguments at hand for a call of one of the engine's functions.
CallInputs ==
    {[kind |-> "complexity_loc", cyclomatic_complexity |-> cc, loc |-> loc] :
        cc \in (0..MaxComplexity) \cup {1000}, loc \in 0..MaxLoc}
    \cup {[kind |-> "stats", stats |-> st] : st \in StatsInputs}
    \cup {[kind |-> "file_path", name |-> n] : n \in DetectNames}
    \cup ModuleInputs

\* The analyzer is constructed; either arguments or one file are at hand.
InitCalls ==
    /\ languages \in GrammarSets
    /\ \/ (fs = <<>> /\ arg \in CallInputs)
       \/ /\ arg = NoValue
          /\ fs \in {<<File(<<>>, name, src, TRUE, parses)>> :
                         name \in FileNames, src \in SeqsUpTo(Items, 1), parses \in BOOLEAN}
    /\ op = "init"
    /\ ret = NoValue
    /\ prev = NoValue
    /\ cache_dir = <<>>
    /\ now = 0
    /\ analyses = <<>>
    /\ response_cache = NoValue
    /\ cost_monitor = NoValue

CalculateMaintainabilityIndex ==
    /\ arg.kind = "complexity_loc"
    /\ op' = "calculate_maintainability_index"
    /\ ret' = calculate_maintainability_index(arg.cyclomatic_complexity, arg.loc)
    /\ UNCHANGED <<languages, fs, response_cache, cost_monitor, arg, prev, cache_dir, now, analyses>>

CalculateQualityMetrics ==
    /\ arg.kind = "stats"
    /\ op' = "_calculate_quality_metrics"
    /\ ret' = calculate_quality_metrics(arg.stats)
    /\ UNCHANGED <<languages, fs, response_cache, cost_monitor, arg, prev, cache_dir, now, analyses>>

DetectLanguage ==
    /\ arg.kind = "file_path"
    /\ op' = "detect_language"
    /\ ret' = detect_language(arg.name)
    /\ UNCHANGED <<languages, fs, response_cache, cost_monitor, arg, prev, cache_dir, now, analyses>>

AnalyzeDependencies ==
    /\ arg.kind = "module"
    /\ op' = "analyze_dependencies"
    /\ ret' = analyze_dependencies(arg.stmts, arg.language)
    /\ UNCHANGED <<languages, fs, response_cache, cost_monitor, arg, prev, cache_dir, now, analyses>>

NextCalls ==
    \/ (fs = <<>> /\ AnalyzeDependencies)
    \/ (fs = <<>> /\ CalculateMaintainabilityIndex)
    \/ (fs = <<>> /\ CalculateQualityMetrics)
    \/ (fs = <<>> /\ DetectLanguage)
    \/ (fs # <<>> /\ AnalyzeFileEnhanced)

SpecCalls == InitCalls /\ [][NextCalls]_vars

\* ------------------------------------------------- analysis cache storage
\* storage/analysis_cache.py keeps one JSON file per repository URL in a cache
\* directory.  cache_dir maps the name of each file that exists to its text,
\* now is the wall clock in hours, analyses is AnalysisService._analyses.

\* Python values that take part in (de)serialisation.  None is NoValue.
Text(s) == [t |-> "str", v |-> s]

Uuid(n) == [t |-> "UUID", v |-> n]

HttpUrl(u) == [t |-> "HttpUrl", v |-> u]

Float(x) == [t |-> "float", v |-> x]

\* str(x) of an object that is not a string.
StrOf(x) == [t |-> "str", of |-> x]

\* A repository URL is the sequence of its parts.
Url1 == <<"https://", "github.com", "/", "test-owner", "/", "test-repo">>

Url2 == <<"http://", "github.com", "/", "test-owner", "/", "test-repo">>

Url3 == <<"https://", "github.com", "/", "test-owner", "/", "other-repo">>

Urls == {Url1, Url2, Url3}

\* _get_cache_file_path: the scheme is dropped, "/" and ":" become "_", ".json"
\* is appended.
get_cache_file_path(repository_url) ==
    LET safe == SelectSeq(repository_url, LAMBDA p : p \notin {"https://", "http://"})
    IN  [i \in 1..Len(safe) |-> IF safe[i] \in {"/", ":"} THEN "_" ELSE safe[i]]
            \o <<".json">>

\* schemas.analysis.AnalysisResult, with the fields the cache and the service
\* set: id, repository_url, status, ai_summary, analysis_duration, error_message.
AnalysisResult(id, repository_url, status, ai_summary, analysis_duration, error_message) ==
    [id |-> id, repository_url |-> repository_url, status |-> status,
     ai_summary |-> ai_summary, analysis_duration |-> analysis_duration,
     error_message |-> error_message]

AnalysisStatus == {"pending", "in_progress", "completed", "failed"}

\* convert_serializable in set: datetimes by isoformat, whatever has a "hex"
\* attribute (UUID, and float as well) by str, other objects that are not
\* str/int/float/bool/None/dict/list by str; the rest is kept.
convert_serializable(obj) ==
    IF obj = NoValue THEN obj
    ELSE IF obj.t \in {"UUID", "float", "HttpUrl"} THEN StrOf(obj)
    ELSE obj

\* model_dump followed by convert_serializable over the dictionary.
serialize(analysis_result) ==
    [id |-> convert_serializable(analysis_result.id),
     repository_url |-> convert_serializable(analysis_result.repository_url),
     status |-> analysis_result.status,
     ai_summary |-> convert_serializable(analysis_result.ai_summary),
     analysis_duration |-> convert_serializable(analysis_result.analysis_duration),
     error_message |-> convert_serializable(analysis_result.error_message)]

\* convert_deserializable in get: a string that starts with "http" becomes an
\* HttpUrl; other strings stay strings (an isoformat timestamp has two "-",
\* not four).
convert_deserializable(obj) ==
    IF obj = NoValue THEN obj
    ELSE IF "of" \in DOMAIN obj /\ obj.of.t = "HttpUrl" THEN obj.of
    ELSE obj

\* AnalysisResult(**analysis_data) validates: the required fields are there and
\* the status is one of the enumeration.
Validates(analysis_data) ==
    /\ {"repository_url", "status"} \subseteq DOMAIN analysis_data
    /\ analysis_data.status \in AnalysisStatus

\* Pydantic's coercion of a field: a UUID or a float from its string.
Coerce(obj) ==
    IF obj = NoValue THEN obj
    ELSE IF "of" \in DOMAIN obj THEN obj.of
    ELSE obj

\* The AnalysisResult built from validated analysis_data.
deserialize(analysis_data) ==
    AnalysisResult(Coerce(convert_deserializable(analysis_data.id)),
                   Coerce(convert_deserializable(analysis_data.repository_url)),
                   analysis_data.status,
                   Coerce(convert_deserializable(analysis_data.ai_summary)),
                   Coerce(convert_deserializable(analysis_data.analysis_duration)),
                   Coerce(convert_deserializable(analysis_data.error_message)))

\* What json.load gives for the text of a cache file: it raises (NotJson), or
\* gives a value that is not an object (JsonList), or an object with the keys
\* it has (an absent key is NoValue).
NotJson == [json |-> "invalid"]

JsonList == [json |-> "list"]

CacheData(repository_url, cached_at, analysis_data) ==
    [json |-> "object", repository_url |-> repository_url, cached_at |-> cached_at,
     analysis_data |-> analysis_data]

\* A cached_at value: the isoformat of a clock reading, or a string that
\* datetime.fromisoformat rejects.
Iso(hours) == [iso |-> hours]

NotIso == [text |-> "yesterday"]

ttl_hours == 24

\* _is_expired raises when cached_at is there and is no isoformat string.
is_expired_raises(cache_data) ==
    /\ cache_data.json = "object"
    /\ cache_data.cached_at # NoValue
    /\ "iso" \notin DOMAIN cache_data.cached_at

\* The time to live taken in days where the code takes hours.
is_expired_ttl_in_days(cache_data, clock) ==
    IF cache_data.json = "list" \/ cache_data.cached_at = NoValue THEN TRUE
    ELSE clock > cache_data.cached_at.iso + 24 * ttl_hours

\* _is_expired: without a cached_at key; otherwise now > cached_at + ttl.
is_expired(cache_data, clock) ==
    IF cache_data.json = "list" \/ cache_data.cached_at = NoValue THEN TRUE
    ELSE clock > cache_data.cached_at.iso + ttl_hours

\* The directory once name is written with text / once name is unlinked.
write_file(dir, name, text) ==
    [n \in (DOMAIN dir) \cup {name} |-> IF n = name THEN text ELSE dir[n]]

unlink(dir, name) == [n \in (DOMAIN dir) \ {name} |-> dir[n]]

\* The try block of get: "raise" (any exception), "expired" or "hit".
get_outcome(text, clock) ==
    IF text.json = "invalid" THEN "raise"
    ELSE IF is_expired_raises(text) THEN "raise"
    ELSE IF is_expired(text, clock) THEN "expired"
    ELSE IF text.analysis_data = NoValue THEN "raise"
    ELSE IF ~Validates(text.analysis_data) THEN "raise"
    ELSE "hit"

\* AnalysisCacheStorage.get: the returned value and the directory it leaves.
get(dir, clock, repository_url) ==
    LET cache_file == get_cache_file_path(repository_url) IN
    IF cache_file \notin DOMAIN dir THEN [ret |-> NoValue, dir |-> dir]
    ELSE LET outcome == get_outcome(dir[cache_file], clock) IN
         IF outcome = "hit"
         THEN [ret |-> deserialize(dir[cache_file].analysis_data), dir |-> dir]
         ELSE [ret |-> NoValue, dir |-> unlink(dir, cache_file)]

\* AnalysisCacheStorage.set: the file is (over)written with the current time.
set(dir, clock, repository_url, analysis_result) ==
    write_file(dir, get_cache_file_path(repository_url),
               CacheData(repository_url, Iso(clock), serialize(analysis_result)))

IsJsonName(name) == name[Len(name)] = ".json"

\* An optional argument that is given.
Some(x) == [some |-> x]

\* clear that takes every *.json file whatever URL it is given.
clear_ignores_url(dir, repository_url) ==
    [n \in {m \in DOMAIN dir : ~IsJsonName(m)} |-> dir[n]]

\* AnalysisCacheStorage.clear: one URL's file if it exists, or every *.json.
clear(dir, repository_url) ==
    IF repository_url # NoValue
    THEN unlink(dir, get_cache_file_path(repository_url.some))
    ELSE [n \in {m \in DOMAIN dir : ~IsJsonName(m)} |-> dir[n]]

\* cleanup_expired removes a *.json file that does not load or is expired (the
\* analysis_data is not looked at) and returns how many it removed.
cleanup_removes(text, clock) ==
    \/ text.json = "invalid"
    \/ is_expired_raises(text)
    \/ is_expired(text, clock)

cleanup_expired(dir, clock) ==
    LET removed == {n \in DOMAIN dir : IsJsonName(n) /\ cleanup_removes(dir[n], clock)}
    IN  [ret |-> Cardinality(removed),
         dir |-> [n \in (DOMAIN dir) \ removed |-> dir[n]]]

\* ------------------------------------------------------ analysis service
\* services/analysis_service.py and the POST /analysis/ endpoint of
\* api/analysis.py.

\* _generate_basic_summary / _generate_ai_summary_optimized: the summary a
\* fresh analysis writes.
GeneratedSummary == Text("This is a Python repository with 100 stars and 10 forks.")

\* AnalysisService.analyze_repository(url): repository information is fetched
\* (github_ok: the GitHub call succeeds), the analysis runs and the result,
\* completed or failed, is stored in _analyses under a new uuid4 and returned.
\* The cache storage is neither read nor written.
\* Mutant: a failed analysis is returned without being stored.
analyze_repository_service_failed_not_stored(stored, url, github_ok, duration) ==
    LET analysis ==
            IF github_ok
            THEN AnalysisResult(Uuid(Len(stored) + 1), HttpUrl(url), "completed",
                                GeneratedSummary, Float(duration), NoValue)
            ELSE AnalysisResult(Uuid(Len(stored) + 1), HttpUrl(url), "failed",
                                NoValue, NoValue, Text("GitHub API error"))
    IN  [ret |-> analysis,
         analyses |-> IF github_ok THEN Append(stored, analysis) ELSE stored]

analyze_repository_service(stored, url, github_ok, duration) ==
    LET analysis ==
            IF github_ok
            THEN AnalysisResult(Uuid(Len(stored) + 1), HttpUrl(url), "completed",
                                GeneratedSummary, Float(duration), NoValue)
            ELSE AnalysisResult(Uuid(Len(stored) + 1), HttpUrl(url), "failed",
                                NoValue, NoValue, Text("GitHub API error"))
    IN  [ret |-> analysis, analyses |-> Append(stored, analysis)]

\* The parameters analyze_repository declares besides self, and the keyword
\* arguments create_analysis passes besides the URL.
analyze_repository_parameters == {"url"}

create_analysis_keywords == {"include_ai_summary", "analysis_depth"}

Response(status_code, body) == [status_code |-> status_code, body |-> body]

\* create_analysis: 413 when _check_repository_size finds the repository
\* unsuitable; otherwise the service is called with the keyword arguments, and
\* any exception (a TypeError for a keyword the method does not declare)
\* becomes a 500.
create_analysis(stored, url, suitable, github_ok, duration) ==
    IF ~suitable
    THEN [ret |-> Response(413, Text("Repository too large for analysis")),
          analyses |-> stored]
    ELSE IF ~(create_analysis_keywords \subseteq analyze_repository_parameters)
    THEN [ret |-> Response(500, Text("Failed to start analysis")), analyses |-> stored]
    ELSE LET done == analyze_repository_service(stored, url, github_ok, duration)
         IN  [ret |-> Response(200, done.ret), analyses |-> done.analyses]

\* ------------------------------------- specification: cache and service

\* Latest clock reading, and most analyses kept in _analyses.
MaxNow == 72

MaxAnalyses == 2

\* The clock at the start, and the step by which it is observed to advance.
StartNow == 36

TickHours == 12

\* Results that callers hand to set, or that earlier runs left in the cache.
CachedSummary == Text("Cached AI summary for test-repo")

CachedResults ==
    {AnalysisResult(Uuid(101), HttpUrl(Url1), "completed", CachedSummary, Float(1500),
                    NoValue),
     AnalysisResult(Uuid(102), HttpUrl(Url1), "failed", NoValue, NoValue,
                    Text("GitHub API error"))}

CompletedResult ==
    AnalysisResult(Uuid(101), HttpUrl(Url1), "completed", CachedSummary, Float(1500), NoValue)

\* Texts a cache file may hold when the process starts: not JSON, a JSON list,
\* entries without or with an unusable cached_at, entries 36 h and exactly 24 h
\* old, fresh ones (one without and one with invalid analysis_data) and one
\* stamped in the future.
InitialTexts ==
    {NotJson, JsonList,
     CacheData(Url1, NoValue, serialize(CompletedResult)),
     CacheData(Url1, NotIso, serialize(CompletedResult)),
     CacheData(Url1, Iso(StartNow - 36), serialize(CompletedResult)),
     CacheData(Url1, Iso(StartNow - 24), serialize(CompletedResult)),
     CacheData(Url1, Iso(StartNow), serialize(CompletedResult)),
     CacheData(Url1, Iso(StartNow), NoValue),
     CacheData(Url1, Iso(StartNow), [ai_summary |-> CachedSummary]),
     CacheData(Url1, Iso(StartNow + 12), serialize(CompletedResult))}

\* The directory with the given texts at the files of Url1 and Url3 (NoValue:
\* no such file).
DirOf(text1, text3) ==
    LET at == [n \in {get_cache_file_path(Url1), get_cache_file_path(Url3)} |->
                   IF n = get_cache_file_path(Url1) THEN text1 ELSE text3]
    IN  [n \in {m \in DOMAIN at : at[m] # NoValue} |-> at[n]]

InitialDirs ==
    {DirOf(text1, text3) :
        text1 \in InitialTexts \cup {NoValue},
        text3 \in {NoValue, CacheData(Url3, Iso(StartNow - 36), serialize(CompletedResult))}}

\* The storage and the service are constructed over an existing directory.
InitCache ==
    /\ languages = {}
    /\ fs = <<>>
    /\ op = "init"
    /\ arg = NoValue
    /\ ret = NoValue
    /\ prev = NoValue
    /\ cache_dir \in InitialDirs
    /\ now = StartNow
    /\ analyses = <<>>
    /\ response_cache = NoValue
    /\ cost_monitor = NoValue

\* The text at the cache file of a URL (NoValue: no such file).
FileOf(dir, repository_url) ==
    IF get_cache_file_path(repository_url) \in DOMAIN dir
    THEN dir[get_cache_file_path(repository_url)]
    ELSE NoValue

\* What a call found when it started: the cache directory, the clock, how many
\* analyses had run, and the request that came right before it (if one did).
RequestOps == {"analyze_repository", "create_analysis"}

Found(repository_url) ==
    [dir |-> cache_dir,
     now |-> now,
     analyses |-> Len(analyses),
     last |-> IF op \in RequestOps THEN [op |-> op, arg |-> arg, ret |-> ret] ELSE NoValue]

Get ==
    \E repository_url \in Urls :
        /\ op' = "get"
        /\ arg' = repository_url
        /\ ret' = get(cache_dir, now, repository_url).ret
        /\ cache_dir' = get(cache_dir, now, repository_url).dir
        /\ prev' = Found(repository_url)
        /\ UNCHANGED <<languages, fs, response_cache, cost_monitor, now, analyses>>

Set ==
    \E repository_url \in Urls, analysis_result \in CachedResults :
        /\ op' = "set"
        /\ arg' = repository_url
        /\ ret' = NoValue
        /\ cache_dir' = set(cache_dir, now, repository_url, analysis_result)
        /\ prev' = NoValue
        /\ UNCHANGED <<languages, fs, response_cache, cost_monitor, now, analyses>>

Clear ==
    \E repository_url \in {Some(u) : u \in Urls} \cup {NoValue} :
        /\ op' = "clear"
        /\ arg' = repository_url
        /\ ret' = NoValue
        /\ cache_dir' = clear(cache_dir, repository_url)
        /\ prev' = Found(repository_url)
        /\ UNCHANGED <<languages, fs, response_cache, cost_monitor, now, analyses>>

CleanupExpired ==
    /\ op' = "cleanup_expired"
    /\ arg' = NoValue
    /\ ret' = cleanup_expired(cache_dir, now).ret
    /\ cache_dir' = cleanup_expired(cache_dir, now).dir
    /\ prev' = NoValue
    /\ UNCHANGED <<languages, fs, response_cache, cost_monitor, now, analyses>>

\* Time passes.
Tick ==
    /\ now + TickHours <= MaxNow
    /\ now' = now + TickHours
    /\ UNCHANGED <<languages, fs, response_cache, cost_monitor, op, arg, ret, prev, cache_dir, analyses>>

\* The repositories that analyses are requested for.
RequestUrls == {Url1}

\* A caller asks the service for an analysis.
ServiceAnalyzeRepository ==
    \E url \in RequestUrls, github_ok \in BOOLEAN :
        /\ Len(analyses) < MaxAnalyses
        /\ op' = "analyze_repository"
        /\ arg' = url
        /\ ret' = analyze_repository_service(analyses, url, github_ok, 1500).ret
        /\ analyses' = analyze_repository_service(analyses, url, github_ok, 1500).analyses
        /\ prev' = Found(url)
        /\ UNCHANGED <<languages, fs, response_cache, cost_monitor, cache_dir, now>>

\* A client posts an analysis request to the API.
CreateAnalysis ==
    \E url \in RequestUrls, suitable \in BOOLEAN, github_ok \in BOOLEAN :
        /\ Len(analyses) < MaxAnalyses
        /\ op' = "create_analysis"
        /\ arg' = url
        /\ ret' = create_analysis(analyses, url, suitable, github_ok, 1500).ret
        /\ analyses' = create_analysis(analyses, url, suitable, github_ok, 1500).analyses
        /\ prev' = Found(url)
        /\ UNCHANGED <<languages, fs, response_cache, cost_monitor, cache_dir, now>>

NextCache ==
    \/ Get
    \/ Set
    \/ Clear
    \/ CleanupExpired
    \/ Tick
    \/ ServiceAnalyzeRepository
    \/ CreateAnalysis

SpecCache == InitCache /\ [][NextCache]_vars

\* ------------------------------------------------------ cost optimization
\* config/llm_optimization.py and middleware/cost_optimization.py. Costs are
\* in millionths of a dollar, the clock of these calls in seconds.

\* LLMOptimizationConfig.model_costs, per 1K tokens.
model_costs ==
    [m \in {"gpt-3.5-turbo", "gpt-4", "gpt-4-turbo",
            "claude-3-haiku", "claude-3-sonnet", "claude-3-opus"} |->
        CASE m = "gpt-3.5-turbo"   -> [input |-> 1500,  output |-> 2000]
          [] m = "gpt-4"           -> [input |-> 30000, output |-> 60000]
          [] m = "gpt-4-turbo"     -> [input |-> 10000, output |-> 30000]
          [] m = "claude-3-haiku"  -> [input |-> 250,   output |-> 1250]
          [] m = "claude-3-sonnet" -> [input |-> 3000,  output |-> 15000]
          [] m = "claude-3-opus"   -> [input |-> 15000, output |-> 75000]]

\* LLMOptimizationConfig.task_model_mapping.
task_model_mapping ==
    [c \in {"simple", "medium", "complex"} |->
        CASE c = "simple"  -> <<"anthropic/claude-3-haiku", "gpt-3.5-turbo">>
          [] c = "medium"  -> <<"anthropic/claude-3-sonnet", "gpt-3.5-turbo", "gpt-4-turbo">>
          [] c = "complex" -> <<"anthropic/claude-3-opus", "gpt-4">>]

\* LLMOptimizationConfig.cost_limits.
cost_limits == [daily |-> 50000000, monthly |-> 1000000000, per_request |-> 1000000]

\* float("inf") of _calculate_model_cost, above every sum of two prices.
Infinity == 1000000

\* _calculate_model_cost, doubled: the average of the two prices keeps the
\* order of their sum.
calculate_model_cost(model) ==
    IF model \notin DOMAIN model_costs THEN Infinity
    ELSE model_costs[model].input + model_costs[model].output

\* _get_cheapest_model: the first model of the list with the least cost.
get_cheapest_model(models) ==
    IF models = <<>> THEN "gpt-3.5-turbo"
    ELSE LET least == CHOOSE i \in 1..Len(models) :
                 /\ \A j \in 1..Len(models) :
                        calculate_model_cost(models[i]) <= calculate_model_cost(models[j])
                 /\ \A j \in 1..(i - 1) :
                        calculate_model_cost(models[j]) > calculate_model_cost(models[i])
         IN  models[least]

\* A list argument that is given.
List(s) == [list |-> s]

Elems(s) == {s[i] : i \in 1..Len(s)}

\* get_optimal_model: available_models is NoValue (None) or a List.
get_optimal_model(task_complexity, available_models) ==
    LET available == IF available_models = NoValue
                     THEN <<"gpt-3.5-turbo", "gpt-4", "gpt-4-turbo",
                            "claude-3-haiku", "claude-3-sonnet", "claude-3-opus">>
                     ELSE available_models.list
        suitable_models == task_model_mapping[task_complexity]
        available_suitable == SelectSeq(suitable_models, LAMBDA m : m \in Elems(available))
    IN  IF available_suitable = <<>>
        THEN get_cheapest_model(available)
        ELSE get_cheapest_model(available_suitable)

\* get_cost_estimate: tokens / 1000 times the price per 1K tokens, 0.0 for a
\* model without prices.
get_cost_estimate(model, input_tokens, output_tokens) ==
    IF model \notin DOMAIN model_costs THEN 0
    ELSE (input_tokens * model_costs[model].input) \div 1000
             + (output_tokens * model_costs[model].output) \div 1000

\* is_within_cost_limits: all three limits are inclusive.
is_within_cost_limits(daily_cost, monthly_cost, per_request_cost) ==
    /\ daily_cost <= cost_limits.daily
    /\ monthly_cost <= cost_limits.monthly
    /\ per_request_cost <= cost_limits.per_request

\* A prompt or a response: its text and the number of words split() finds.
Str(text, words) == [text |-> text, words |-> words]

\* int(len(s.split()) * 1.3)
tokens_of(s) == (s.words * 13) \div 10

\* ---- CostMonitor

Stats(cost, tokens, requests) == [cost |-> cost, tokens |-> tokens, requests |-> requests]

\* CostMonitor(): nothing used, no alerts.
CostMonitor ==
    [usage_stats |-> [daily |-> Stats(0, 0, 0), monthly |-> Stats(0, 0, 0),
                      per_model |-> <<>>],
     alerts |-> <<>>]

Add(stats, tokens, cost) ==
    Stats(stats.cost + cost, stats.tokens + tokens, stats.requests + 1)

\* _check_alerts: an alert for each total above its limit.
check_alerts(usage_stats, alerts) ==
    alerts
      \o (IF usage_stats.daily.cost > cost_limits.daily
          THEN <<[type |-> "daily_cost_exceeded", cost |-> usage_stats.daily.cost]>>
          ELSE <<>>)
      \o (IF usage_stats.monthly.cost > cost_limits.monthly
          THEN <<[type |-> "monthly_cost_exceeded", cost |-> usage_stats.monthly.cost]>>
          ELSE <<>>)

\* CostMonitor.track_usage.
track_usage(monitor, model, input_tokens, output_tokens, cost) ==
    LET u == monitor.usage_stats
        tokens == input_tokens + output_tokens
        before == IF model \in DOMAIN u.per_model THEN u.per_model[model] ELSE Stats(0, 0, 0)
        after == [daily |-> Add(u.daily, tokens, cost),
                  monthly |-> Add(u.monthly, tokens, cost),
                  per_model |-> [m \in (DOMAIN u.per_model) \cup {model} |->
                                    IF m = model THEN Add(before, tokens, cost)
                                    ELSE u.per_model[m]]]
    IN  [usage_stats |-> after, alerts |-> check_alerts(after, monitor.alerts)]

\* CostMonitor.reset_daily_stats.
reset_daily_stats(monitor) ==
    [monitor EXCEPT !.usage_stats.daily = Stats(0, 0, 0)]

\* ---- ResponseCache

DefaultMaxSize == 1000

DefaultTtl == 3600

\* ResponseCache(max_size, ttl): the dict is a sequence in insertion order.
ResponseCache(max_size, ttl) == [cache |-> <<>>, max_size |-> max_size, ttl |-> ttl]

\* _generate_cache_key: the digest of f"{prompt}:{model}", one for one with
\* the text it is taken of.
generate_cache_key(prompt, model) == <<prompt.text, ":", model>>

\* Where the key stands in the dict (0: not in it).
IndexOf(cache, cache_key) ==
    IF \E i \in 1..Len(cache) : cache[i].key = cache_key
    THEN CHOOSE i \in 1..Len(cache) : cache[i].key = cache_key
    ELSE 0

\* del cache[key]
Without(cache, i) == [j \in 1..(Len(cache) - 1) |-> IF j < i THEN cache[j] ELSE cache[j + 1]]

\* ResponseCache.get: the returned value and the cache it leaves; an expired
\* item is deleted.
cache_get(rc, clock, prompt, model) ==
    LET i == IndexOf(rc.cache, generate_cache_key(prompt, model)) IN
    IF i = 0 THEN [ret |-> NoValue, rc |-> rc]
    ELSE IF clock - rc.cache[i].timestamp > rc.ttl
         THEN [ret |-> NoValue, rc |-> [rc EXCEPT !.cache = Without(rc.cache, i)]]
         ELSE [ret |-> rc.cache[i].response, rc |-> rc]

\* min(cache.keys(), key=timestamp): the first of the items with the least
\* timestamp.
oldest_key(cache) ==
    CHOOSE i \in 1..Len(cache) :
        /\ \A j \in 1..Len(cache) : cache[i].timestamp <= cache[j].timestamp
        /\ \A j \in 1..(i - 1) : cache[j].timestamp > cache[i].timestamp

\* set that evicts the item put in last.
cache_set_evicts_newest(rc, clock, prompt, model, response) ==
    LET cache_key == generate_cache_key(prompt, model)
        item == [key |-> cache_key, response |-> response, timestamp |-> clock,
                 prompt |-> prompt, model |-> model]
        kept == IF Len(rc.cache) >= rc.max_size
                THEN Without(rc.cache, Len(rc.cache))
                ELSE rc.cache
        i == IndexOf(kept, cache_key)
    IN  IF Len(rc.cache) >= rc.max_size /\ rc.cache = <<>>
        THEN [raised |-> TRUE, rc |-> rc]
        ELSE [raised |-> FALSE,
              rc |-> [rc EXCEPT !.cache = IF i = 0 THEN Append(kept, item)
                                          ELSE [kept EXCEPT ![i] = item]]]

\* ResponseCache.set: a full cache first loses its oldest item (min() of an
\* empty dict raises ValueError), then the item is written at its key.
cache_set(rc, clock, prompt, model, response) ==
    LET cache_key == generate_cache_key(prompt, model)
        item == [key |-> cache_key, response |-> response, timestamp |-> clock,
                 prompt |-> prompt, model |-> model]
        kept == IF Len(rc.cache) >= rc.max_size
                THEN Without(rc.cache, oldest_key(rc.cache))
                ELSE rc.cache
        i == IndexOf(kept, cache_key)
    IN  IF Len(rc.cache) >= rc.max_size /\ rc.cache = <<>>
        THEN [raised |-> TRUE, rc |-> rc]
        ELSE [raised |-> FALSE,
              rc |-> [rc EXCEPT !.cache = IF i = 0 THEN Append(kept, item)
                                          ELSE [kept EXCEPT ![i] = item]]]

\* ResponseCache.clear.
cache_clear(rc) == [rc EXCEPT !.cache = <<>>]

\* ---- CostOptimizationMiddleware (test_mode False, as the global instance)

\* The models process_request looks up when it is given none.
DefaultModelsToCheck == <<"gpt-3.5-turbo", "gpt-4", "gpt-4-turbo">>

\* Python truth of an Optional[str].
Truthy(s) == s # NoValue /\ s.words > 0

\* The loop over models_to_check: the first truthy cached response and its
\* model; every get on the way may delete an expired item.
RECURSIVE find_cached(_, _, _, _, _)
find_cached(rc, clock, prompt, models_to_check, k) ==
    IF k > Len(models_to_check)
    THEN [response |-> NoValue, model |-> "none", rc |-> rc]
    ELSE LET got == cache_get(rc, clock, prompt, models_to_check[k]) IN
         IF Truthy(got.ret)
         THEN [response |-> got.ret, model |-> models_to_check[k], rc |-> got.rc]
         ELSE find_cached(got.rc, clock, prompt, models_to_check, k + 1)

\* What ai_client.generate_summary comes back with: a response or an error.
Generated(response) == [error |-> FALSE, response |-> response]

FailedCall == [error |-> TRUE, response |-> NoValue]

\* _process_with_llm outside test mode.
process_with_llm(llm) ==
    IF llm.error THEN Str("AI analysis unavailable: rate limit", 5) ELSE llm.response

\* _check_cost_limits.
check_cost_limits(monitor, estimated_cost) ==
    is_within_cost_limits(monitor.usage_stats.daily.cost + estimated_cost,
                          monitor.usage_stats.monthly.cost + estimated_cost,
                          estimated_cost)

\* process_request that charges a request the limits refuse.
process_request_charges_refused(rc, monitor, clock, prompt, task_complexity, available_models, llm) ==
    LET optimal_model == get_optimal_model(task_complexity, available_models)
        response == process_with_llm(llm)
        actual_cost == get_cost_estimate(optimal_model, tokens_of(prompt), tokens_of(response))
    IN  [ret |-> [response |-> response, cached |-> FALSE, cost |-> actual_cost,
                  model |-> optimal_model,
                  tokens |-> ((prompt.words + response.words) * 13) \div 10],
         rc |-> cache_set(rc, clock, prompt, optimal_model, response).rc,
         monitor |-> track_usage(monitor, optimal_model, tokens_of(prompt),
                                 tokens_of(response), actual_cost),
         llm_called |-> TRUE]

\* CostOptimizationMiddleware.process_request: the result, the cache and the
\* monitor it leaves, and whether the LLM was called. llm is what the call
\* would come back with.
process_request(rc, monitor, clock, prompt, task_complexity, available_models, llm) ==
    LET models_to_check == IF available_models = NoValue \/ available_models.list = <<>>
                           THEN DefaultModelsToCheck
                           ELSE available_models.list
        found == find_cached(rc, clock, prompt, models_to_check, 1)
        optimal_model == get_optimal_model(task_complexity, available_models)
        estimated_cost == get_cost_estimate(optimal_model, tokens_of(prompt), 100)
        response == process_with_llm(llm)
        actual_cost == get_cost_estimate(optimal_model, tokens_of(prompt), tokens_of(response))
    IN  IF Truthy(found.response)
        THEN [ret |-> [response |-> found.response, cached |-> TRUE, cost |-> 0,
                       model |-> found.model],
              rc |-> found.rc, monitor |-> monitor, llm_called |-> FALSE]
        ELSE IF ~check_cost_limits(monitor, estimated_cost)
        THEN [ret |-> [error |-> "Cost limit exceeded", estimated_cost |-> estimated_cost],
              rc |-> found.rc, monitor |-> monitor, llm_called |-> FALSE]
        ELSE [ret |-> [response |-> response, cached |-> FALSE, cost |-> actual_cost,
                       model |-> optimal_model,
                       tokens |-> ((prompt.words + response.words) * 13) \div 10],
              rc |-> cache_set(found.rc, clock, prompt, optimal_model, response).rc,
              monitor |-> track_usage(monitor, optimal_model, tokens_of(prompt),
                                      tokens_of(response), actual_cost),
              llm_called |-> TRUE]

\* --------------------------------------- specification: the response cache
\* A ResponseCache of its own, as the tests construct it.

MaxSize == 2

MaxTime == 3602

\* Half the time to live and a second.
AdvanceSeconds == DefaultTtl \div 2 + 1

Prompt(i) == Str("prompt_" \o ToString(i), 1)

ResponseText(i) == Str("response_" \o ToString(i), 1)

CachePrompts == {Prompt(i) : i \in 0..MaxSize}

CacheModels == {"gpt-3.5-turbo", "any"}

InitResponseCache ==
    /\ languages = {}
    /\ fs = <<>>
    /\ op = "init"
    /\ arg = NoValue
    /\ ret = NoValue
    /\ prev = NoValue
    /\ cache_dir = <<>>
    /\ now = 0
    /\ analyses = <<>>
    /\ response_cache \in {ResponseCache(max_size, DefaultTtl) : max_size \in 0..MaxSize}
    /\ cost_monitor = CostMonitor

\* What a call on the cache or the middleware found when it started.
FoundCache(input) ==
    [rc |-> response_cache, monitor |-> cost_monitor, now |-> now, input |-> input]

ResponseCacheGet ==
    \E prompt \in CachePrompts, model \in CacheModels :
        /\ op' = "cache_get"
        /\ arg' = [prompt |-> prompt, model |-> model]
        /\ ret' = cache_get(response_cache, now, prompt, model).ret
        /\ response_cache' = cache_get(response_cache, now, prompt, model).rc
        /\ prev' = FoundCache(NoValue)
        /\ UNCHANGED <<languages, fs, cost_monitor, cache_dir, now, analyses>>

ResponseCacheSet ==
    \E i \in 0..MaxSize, model \in CacheModels :
        /\ op' = "cache_set"
        /\ arg' = [prompt |-> Prompt(i), model |-> model]
        /\ ret' = [raised |-> cache_set(response_cache, now, Prompt(i), model, ResponseText(i)).raised]
        /\ response_cache' = cache_set(response_cache, now, Prompt(i), model, ResponseText(i)).rc
        /\ prev' = FoundCache(NoValue)
        /\ UNCHANGED <<languages, fs, cost_monitor, cache_dir, now, analyses>>

ResponseCacheClear ==
    /\ op' = "cache_clear"
    /\ arg' = NoValue
    /\ ret' = NoValue
    /\ response_cache' = cache_clear(response_cache)
    /\ prev' = FoundCache(NoValue)
    /\ UNCHANGED <<languages, fs, cost_monitor, cache_dir, now, analyses>>

\* Time passes.
Advance ==
    /\ now + AdvanceSeconds <= MaxTime
    /\ now' = now + AdvanceSeconds
    /\ UNCHANGED <<languages, fs, op, arg, ret, prev, response_cache, cost_monitor,
                   cache_dir, analyses>>

NextResponseCache ==
    \/ ResponseCacheGet
    \/ ResponseCacheSet
    \/ ResponseCacheClear
    \/ Advance

SpecResponseCache == InitResponseCache /\ [][NextResponseCache]_vars

\* ------------------------------------------ specification: the middleware
\* CostOptimizationMiddleware() with its own monitor and response cache.

MaxRequests == 1

CachedRequest == Str("Cached request", 2)

MidPrompt == Str("Review of one package", 4000)

BigPrompt == Str("Review of the repository", 25000)

HugePrompt == Str("Review of every file", 40000)

RequestPrompts == {CachedRequest, MidPrompt, BigPrompt, HugePrompt}

EmptyResponse == Str("", 0)

LongResponse == Str("Long response", 800)

\* What the LLM may come back with.
LlmOutcomes ==
    {Generated(EmptyResponse), Generated(LongResponse), FailedCall}

\* The usage after earlier requests: monthly of them in the month, daily of
\* them since the last reset_daily_stats, each BigPrompt as a complex task
\* answered with LongResponse.
Served(daily, monthly) ==
    LET model == get_optimal_model("complex", NoValue)
        tokens == tokens_of(BigPrompt) + tokens_of(LongResponse)
        cost == get_cost_estimate(model, tokens_of(BigPrompt), tokens_of(LongResponse))
        usage_stats ==
            [daily |-> Stats(daily * cost, daily * tokens, daily),
             monthly |-> Stats(monthly * cost, monthly * tokens, monthly),
             per_model |-> IF monthly = 0 THEN <<>>
                           ELSE [m \in {model} |->
                                    Stats(monthly * cost, monthly * tokens, monthly)]]
    IN  [usage_stats |-> usage_stats, alerts |-> check_alerts(usage_stats, <<>>)]

\* The last of these requests passed the check of the limits.
CanServe(daily, monthly) ==
    LET model == get_optimal_model("complex", NoValue)
        estimated_cost == get_cost_estimate(model, tokens_of(BigPrompt), 100)
    IN  /\ daily <= monthly
        /\ estimated_cost <= cost_limits.per_request
        /\ daily > 0 => check_cost_limits(Served(daily - 1, monthly - 1), estimated_cost)
        /\ monthly > 0 => check_cost_limits(Served(0, monthly - 1), estimated_cost)

\* Earlier requests the middleware may have served: none, or so many that a
\* limit is near.
ServedCounts ==
    {sc \in {<<0, 0>>, <<48, 48>>, <<49, 49>>, <<0, 963>>, <<0, 965>>} :
        CanServe(sc[1], sc[2])}

\* The response cache after those requests: the last one of the day is still
\* in it.
ServedCache(daily) ==
    IF daily = 0 THEN ResponseCache(DefaultMaxSize, DefaultTtl)
    ELSE cache_set(ResponseCache(DefaultMaxSize, DefaultTtl), 0, BigPrompt,
                   get_optimal_model("complex", NoValue), LongResponse).rc

InitCost ==
    /\ languages = {}
    /\ fs = <<>>
    /\ op = "init"
    /\ arg = NoValue
    /\ ret = NoValue
    /\ prev = NoValue
    /\ cache_dir = <<>>
    /\ now = 0
    /\ analyses = <<>>
    /\ \E sc \in ServedCounts :
          /\ response_cache = ServedCache(sc[1])
          /\ cost_monitor = Served(sc[1], sc[2])

\* No more than MaxRequests charged requests after the earlier ones are
\* followed.
WithinRequestBound ==
    \E sc \in ServedCounts :
        /\ sc[2] <= cost_monitor.usage_stats.monthly.requests
        /\ cost_monitor.usage_stats.monthly.requests < sc[2] + MaxRequests

\* The task and the models a caller asks with.
RequestKinds ==
    {[task_complexity |-> "complex", available_models |-> NoValue],
     [task_complexity |-> "simple", available_models |-> List(<<"claude-3-sonnet">>)]}

ProcessRequest ==
    \E prompt \in RequestPrompts, kind \in RequestKinds, llm \in LlmOutcomes :
        LET done == Only({process_request(response_cache, cost_monitor, now, prompt,
                                          kind.task_complexity, kind.available_models,
                                          llm)})
        IN  /\ done.llm_called => WithinRequestBound
            /\ op' = "process_request"
            /\ arg' = [prompt |-> prompt, model |-> "none"]
            /\ ret' = done.ret
            /\ response_cache' = done.rc
            /\ cost_monitor' = done.monitor
            /\ prev' = FoundCache([kind |-> kind,
                                   llm |-> IF done.llm_called THEN llm ELSE NoValue,
                                   llm_called |-> done.llm_called])
            /\ UNCHANGED <<languages, fs, cache_dir, now, analyses>>

\* response_cache.set called on the middleware's cache, as the tests do before
\* a request.
PopulateCache ==
    \E model \in {"any"} :
        /\ op' = "cache_set"
        /\ arg' = [prompt |-> CachedRequest, model |-> model]
        /\ ret' = [raised |-> FALSE]
        /\ response_cache' = cache_set(response_cache, now, CachedRequest, model,
                                       Str("Cached response", 2)).rc
        /\ prev' = FoundCache(NoValue)
        /\ UNCHANGED <<languages, fs, cost_monitor, cache_dir, now, analyses>>

\* CostOptimizationMiddleware.reset_stats.
ResetStats ==
    /\ op' = "reset_stats"
    /\ arg' = NoValue
    /\ ret' = NoValue
    /\ cost_monitor' = reset_daily_stats(cost_monitor)
    /\ response_cache' = cache_clear(response_cache)
    /\ prev' = FoundCache(NoValue)
    /\ UNCHANGED <<languages, fs, cache_dir, now, analyses>>

NextCost ==
    \/ ProcessRequest
    \/ PopulateCache
    \/ ResetStats
    \/ Advance

SpecCost == InitCost /\ [][NextCost]_vars

\* ------------------------------------------------------ claims on one file

TheFile == fs[1]

FileLanguage == detect_language(TheFile.path.name)

FileLines == Render(FlavourOf(FileLanguage), TheFile.src)

FileTree == Parse(FlavourOf(FileLanguage), TheFile.src)

\* The call took the tree path: language detected, grammar loaded, parser succeeded.
AstMode ==
    /\ op = "analyze_file_enhanced"
    /\ FileLanguage \in languages
    /\ TheFile.parses

CountTypes(tree, kinds) ==
    LET types == TypesOfTree(tree)
    IN  Cardinality({i \in 1..Len(types) : types[i] \in kinds})

\* C1 as stated: every FileMetrics returned by analyze_file_enhanced has
\* cyclomatic_complexity >= 1, whatever the path, content, grammar or parser outcome.
C1_AlwaysAtLeastOne ==
    op = "analyze_file_enhanced" => ret.complexity.cyclomatic_complexity >= 1

\* C1 amended: cyclomatic_complexity >= 1 for every file analysed through the tree
\* (language detected, grammar loaded, parser succeeded); in the degraded result
\* (no language, no grammar, or the parser raising) it is 0.
C1_AtLeastOneInAstMode ==
    op = "analyze_file_enhanced" =>
        IF AstMode THEN ret.complexity.cyclomatic_complexity >= 1
        ELSE ret.complexity.cyclomatic_complexity = 0

C1_Witness ==
    /\ AstMode
    /\ CountTypes(FileTree, {"if_statement", "try_statement"}) = 0
    /\ ret.complexity.cyclomatic_complexity = 1

\* C3: analyze_file_enhanced always returns a FileMetrics; when the parser raises for
\* a file whose language has a grammar, the result carries the degraded defaults
\* (language "unknown", cyclomatic 0, maintainability 50.0, debt ratio 0.5, no
\* patterns, no dependencies) and lines_of_code is the number of non-blank lines.
C3_DegradesOnParserError ==
    op = "analyze_file_enhanced" =>
        /\ ret.kind = "FileMetrics"
        /\ (FileLanguage \in languages /\ ~TheFile.parses) =>
              /\ ret.language = "unknown"
              /\ ret.file_path = TheFile.path
              /\ ret.complexity.cyclomatic_complexity = 0
              /\ ret.quality.maintainability_index = 50000
              /\ ret.quality.technical_debt_ratio = 500
              /\ ret.patterns = <<>>
              /\ ret.dependencies.imports = <<>>
              /\ ret.dependencies.internal_deps = <<>>
              /\ ret.dependencies.external_deps = <<>>
              /\ ret.lines_of_code = Len(SelectSeq(FileLines, LAMBDA l : l.lead # ""))

C3_Witness ==
    /\ op = "analyze_file_enhanced"
    /\ FileLanguage = "python"
    /\ FileLanguage \in languages
    /\ ~TheFile.parses
    /\ \E i \in 1..Len(FileLines) : IsBlankLine(FileLines[i])
    /\ ret.lines_of_code > 0
    /\ ret.language = "unknown"

\* Node types of if, while, for, switch-case, catch/except and elif constructs.
ClaimedDecisionKinds ==
    {"if_statement", "while_statement", "for_statement", "case_clause", "switch_case",
     "case_statement", "switch_block_statement_group", "catch_clause", "except_clause",
     "elif_clause"}

\* C8 as stated: in AST mode cyclomatic complexity is 1 plus the number of if, while,
\* for, switch-case, catch/except and elif nodes, and no other node kind counts.
C8_OnePlusClaimedKinds ==
    AstMode =>
        ret.complexity.cyclomatic_complexity = 1 + CountTypes(FileTree, ClaimedDecisionKinds)

\* The node types that count, per language, as amended.
AmendedDecisionKinds(language) ==
    CASE language = "python" ->
            {"if_statement", "while_statement", "for_statement", "try_statement",
             "except_clause", "elif_clause"}
      [] language \in {"javascript", "typescript"} ->
            {"if_statement", "while_statement", "for_statement", "switch_statement",
             "case_clause", "catch_clause"}
      [] language = "java" ->
            {"if_statement", "while_statement", "for_statement", "switch_expression",
             "catch_clause"}
      [] OTHER -> {}

\* C8 amended: in AST mode cyclomatic complexity is 1 plus the number of nodes whose
\* type is in the language's table: Python if/while/for/try/except/elif (a try
\* statement counts besides its except clauses); JavaScript and TypeScript
\* if/while/for/switch_statement/case_clause/catch_clause; Java
\* if/while/for/switch_expression/catch_clause; any other language with a grammar
\* (C++, Rust, Go) always 1.  A Python function with a single `if` yields 2.
C8_OnePlusTableKinds ==
    AstMode =>
        /\ ret.complexity.cyclomatic_complexity
              = 1 + CountTypes(FileTree, AmendedDecisionKinds(FileLanguage))
        /\ (FileLanguage = "python" /\ TheFile.src = <<Func(2, "if")>>)
              => ret.complexity.cyclomatic_complexity = 2

C8_Witness ==
    /\ AstMode
    /\ FileLanguage = "python"
    /\ TheFile.src = <<Func(2, "try")>>
    /\ ret.complexity.cyclomatic_complexity = 3

\* The 1-based lines of the entries named `name` in a pattern sequence; the name
\* field is pattern_name in a CodePattern and pattern in a line-detector entry.
LinesNamed(patterns, name) ==
    LET hits == SelectSeq(patterns,
                          LAMBDA q : IF "pattern_name" \in DOMAIN q
                                     THEN q.pattern_name = name ELSE q.pattern = name)
    IN  [i \in 1..Len(hits) |->
            IF "line_number" \in DOMAIN hits[i] THEN hits[i].line_number ELSE hits[i].line]

NoDuplicates(s) == \A i, j \in 1..Len(s) : s[i] = s[j] => i = j

Range(s) == {s[i] : i \in 1..Len(s)}

\* One entry on each line of `expected`, and no other.
ExactlyAt(patterns, name, expected) ==
    /\ NoDuplicates(LinesNamed(patterns, name))
    /\ Range(LinesNamed(patterns, name)) = expected

ClassItems == {i \in 1..Len(TheFile.src) : TheFile.src[i].k = "class"}

FuncItems == {i \in 1..Len(TheFile.src) : TheFile.src[i].k = "func"}

ItemLine(i) == RowOf(TheFile.src, i) + 1

\* Methods a class declares itself, decorated or not.
OwnMethods(it) == it.methods + it.decorated

\* C9, on Python sources: a God Class entry is emitted for a class exactly when
\* its own method count exceeds 20 (20 methods give none, 21 give one entry located
\* at that class), by the tree-based and by the line-based detector; methods of
\* other classes or of module level never count.
C9_GodClassIffOwnMethods ==
    FileLanguage = "python" =>
        LET expected == {ItemLine(i) : i \in {c \in ClassItems :
                                                OwnMethods(TheFile.src[c]) > GodClassThreshold}}
        IN  /\ AstMode => ExactlyAt(ret.patterns, "God Class", expected)
            /\ op = "_detect_file_patterns" =>
                  ExactlyAt(ret.anti_patterns, "God Class", expected)

\* C10, on Python sources: a Long Method entry is emitted for a function exactly
\* when end line - start line > 50 (50 gives none, 51 gives one), on the function's
\* 1-based start line, by the tree-based and by the line-based detector.
C10_LongMethodIffSpan ==
    FileLanguage = "python" =>
        LET expected == {ItemLine(i) : i \in {f \in FuncItems :
                                                TheFile.src[f].span > LongMethodThreshold}}
        IN  /\ AstMode => ExactlyAt(ret.patterns, "Long Method", expected)
            /\ op = "_detect_file_patterns" =>
                  ExactlyAt(ret.anti_patterns, "Long Method", expected)

\* -------------------------------------------------- claims on a repository

RepoOps == {"analyze_repository", "analyze_repository_enhanced"}

\* The call just finished was an aggregation of the existing root.
RepoCall == op \in RepoOps /\ arg = RepoRoot

\* What entry point o reports for the tree `files` below RepoRoot.
Report(o, files) ==
    IF o = "analyze_repository" THEN analyze_repository(languages, files, RepoRoot)
    ELSE analyze_repository_enhanced(languages, files, RepoRoot)

\* The file lies under a hidden directory or under one of the ignore list.
UnderPruned(f) ==
    \E i \in 1..Len(f.path.dirs) :
        f.path.dirs[i].dot
        \/ f.path.dirs[i].stem \in {"node_modules", "__pycache__", "venv", "env"}

\* The walk reaches the file and takes it for code.
Eligible(f) == ~UnderPruned(f) /\ ~f.path.name.dot /\ is_code_file(f.path.name)

\* The parser is run on the file and raises.
ParserFails(f) == detect_language(f.path.name) \in languages /\ ~f.parses

\* lines_of_code of a file as entry point o counts it: all lines for
\* analyze_repository, the non-blank lines for analyze_repository_enhanced.
LinesCounted(o, f) ==
    IF o = "analyze_repository" THEN Len(FileText(f)) ELSE NonBlankCount(FileText(f))

\* The parts of a report the files contribute to one by one.
Counters(report) ==
    [total_files |-> report.total_files, total_lines |-> report.total_lines,
     languages |-> report.languages,
     largest_files |-> IF "largest_files" \in DOMAIN report THEN report.largest_files
                       ELSE <<>>]

\* The sum of one counter ("files" or "lines") over the languages of a map.
RECURSIVE SumCounter(_, _)
SumCounter(languages_map, counter) ==
    IF DOMAIN languages_map = {} THEN 0
    ELSE LET l == CHOOSE k \in DOMAIN languages_map : TRUE
         IN  languages_map[l][counter]
             + SumCounter([k \in DOMAIN languages_map \ {l} |-> languages_map[k]], counter)

C4_FailingFileContributesNothing ==
    RepoCall =>
        /\ "total_files" \in DOMAIN ret
        /\ Counters(ret)
              = Counters(Report(op, SelectSeq(fs, LAMBDA f : f.readable /\ ~ParserFails(f))))

\* C4 amended: a failure on one file never aborts the walk.  A file that cannot be
\* read contributes nothing to total_files, total_lines, the per-language counters or
\* largest_files, and every other file is counted as if it were absent.  A file on
\* which the parser raises is not skipped: it is counted through the fallback
\* analysis, by analyze_repository under its detected language with all its lines,
\* by analyze_repository_enhanced under "unknown" with its non-blank lines.
C4_UnreadableSkippedParseFailureCounted ==
    RepoCall =>
        /\ "total_files" \in DOMAIN ret
        /\ Counters(ret) = Counters(Report(op, SelectSeq(fs, LAMBDA f : f.readable)))
        /\ \A i \in 1..Len(fs) :
              (Eligible(fs[i]) /\ fs[i].readable /\ ParserFails(fs[i])) =>
                  LET without == Report(op, Pick(fs, (1..Len(fs)) \ {i}))
                      lang == IF op = "analyze_repository"
                              THEN detect_language(fs[i].path.name) ELSE "unknown"
                      before == IF lang \in DOMAIN without.languages
                                THEN without.languages[lang]
                                ELSE [files |-> 0, lines |-> 0]
                      n == LinesCounted(op, fs[i])
                  IN  /\ ret.total_files = without.total_files + 1
                      /\ ret.total_lines = without.total_lines + n
                      /\ ret.languages[lang] = [files |-> before.files + 1,
                                                lines |-> before.lines + n]

C4_Witness ==
    /\ op = "analyze_repository"
    /\ arg = RepoRoot
    /\ \E i, j, k \in 1..Len(fs) :
          /\ Eligible(fs[i]) /\ ~fs[i].readable
          /\ Eligible(fs[j]) /\ fs[j].readable /\ ParserFails(fs[j])
          /\ Eligible(fs[k]) /\ fs[k].readable /\ ~ParserFails(fs[k])
    /\ ret.total_files = 2

C6_PrunedDirsContributeNothing ==
    (op = "analyze_repository" /\ arg = RepoRoot) =>
        ret = analyze_repository(languages, SelectSeq(fs, LAMBDA f : ~UnderPruned(f)),
                                 RepoRoot)

Analysed == SelectSeq(fs, LAMBDA f : Eligible(f) /\ f.readable)

\* The file was analysed through the tree: language detected, grammar loaded,
\* parser succeeding.
TreeAnalysed(f) == detect_language(f.path.name) \in languages /\ f.parses

\* The hotspot entries of type large_file for the file at `path`.
LargeFileEntries(hotspots, path) ==
    SelectSeq(hotspots, LAMBDA h : /\ "type" \in DOMAIN h
                                   /\ h.type = "large_file"
                                   /\ h.file = path)

\* "high" above 1000 lines, "medium" otherwise.
SeverityOf(lines) == IF lines > 1000 THEN "high" ELSE "medium"

\* C11 as stated: every analysed file with more than 500 lines appears in the
\* hotspots as a large-file entry of severity "high" above 1000 lines and "medium"
\* otherwise, as long as the hotspots stay within the cap of 10; the hotspots never
\* number more than 10.
C11_EveryLargeFileIsHotspot ==
    RepoCall =>
        /\ Len(ret.hotspots) <= TopN
        /\ Len(ret.hotspots) < TopN =>
              \A i \in 1..Len(Analysed) :
                  LinesCounted(op, Analysed[i]) > 500 =>
                      \E j \in 1..Len(ret.hotspots) :
                          LET h == ret.hotspots[j]
                          IN  /\ "type" \in DOMAIN h
                              /\ h.type = "large_file"
                              /\ h.file = Analysed[i].path
                              /\ h.severity = SeverityOf(LinesCounted(op, Analysed[i]))

\* The number of analysed files that precede file i in the order largest first, ties
\* in walk order.
RankOf(i) ==
    Cardinality({j \in 1..Len(Analysed) :
                    \/ Len(FileText(Analysed[j])) > Len(FileText(Analysed[i]))
                    \/ (Len(FileText(Analysed[j])) = Len(FileText(Analysed[i])) /\ j < i)})

\* C11 amended: analyze_repository lists as large_file hotspots exactly the files
\* with more than 500 lines among the five largest analysed files (largest first, ties
\* in walk order), each once, with its line count and severity "high" above 1000
\* lines and "medium" otherwise; a file ranked sixth or lower is not listed however
\* large.  The hotspots of analyze_repository_enhanced are file paths without a
\* severity: a file with more than 500 non-blank lines is listed iff it was analysed
\* through the tree (while fewer than 10 are listed).  Neither list exceeds 10.  A
\* single file of 1200 lines is analyze_repository's only hotspot, severity "high",
\* and its first largest_files entry.
C11_TopFiveLargeFilesAreHotspots ==
    /\ (op = "analyze_repository" /\ arg = RepoRoot) =>
          /\ Len(ret.hotspots) <= TopN
          /\ \A i \in 1..Len(Analysed) :
                LET n == Len(FileText(Analysed[i]))
                    entries == LargeFileEntries(ret.hotspots, Analysed[i].path)
                IN  IF n > 500 /\ RankOf(i) < 5
                    THEN entries = <<[type |-> "large_file", file |-> Analysed[i].path,
                                      lines |-> n, severity |-> SeverityOf(n)]>>
                    ELSE entries = <<>>
          /\ fs = ScenarioE =>
                /\ ret.hotspots = <<[type |-> "large_file", file |-> fs[1].path,
                                     lines |-> 1200, severity |-> "high"]>>
                /\ ret.largest_files[1].path = fs[1].path
    /\ (op = "analyze_repository_enhanced" /\ arg = RepoRoot) =>
          /\ Len(ret.hotspots) <= TopN
          /\ \A j \in 1..Len(ret.hotspots) :
                \E i \in 1..Len(Analysed) : ret.hotspots[j] = Analysed[i].path
          /\ Len(ret.hotspots) < TopN =>
                \A i \in 1..Len(Analysed) :
                    NonBlankCount(FileText(Analysed[i])) > 500 =>
                        ((Analysed[i].path \in Range(ret.hotspots))
                            <=> TreeAnalysed(Analysed[i]))

C11_Witness ==
    /\ op = "analyze_repository"
    /\ arg = RepoRoot
    /\ fs = ScenarioF
    /\ Len(ret.hotspots) = 6
    /\ ret.hotspots[1].severity = "high"
    /\ ret.hotspots[2].lines = 1000
    /\ ret.hotspots[2].severity = "medium"
    /\ LargeFileEntries(ret.hotspots, fs[1].path) = <<>>
    /\ prev # NoValue
    /\ prev.op = "analyze_repository_enhanced"
    /\ prev.arg = RepoRoot
    /\ Len(prev.ret.hotspots) >= 4

\* min(100, total_files * 2), times 0.8 above 5 languages, times 0.7 when the largest
\* file exceeds 1000 lines, times 0.6 when the complexity estimate exceeds 0.7; in
\* thousandths.
ClaimedScore(total_files, language_count, largest, complexity) ==
    (Min(100, total_files * 2)
        * (IF language_count > 5 THEN 8 ELSE 10)
        * (IF largest > 1000 THEN 7 ELSE 10)
        * (IF complexity > 700 THEN 6 ELSE 10))

\* The lines_of_code of the largest analysed file as entry point o counts them.
LargestCounted(o) ==
    MaxSeq([i \in 1..Len(Analysed) |-> LinesCounted(o, Analysed[i])])

\* C12 as stated: the architecture_score reported by analyze_repository and by
\* analyze_repository_enhanced is min(100, total_files * 2), multiplied by 0.8 above
\* 5 languages, by 0.7 if the largest file exceeds 1000 lines and by 0.6 if the 0-1
\* complexity estimate exceeds 0.7, and lies in [0, 100].
C12_ScoreFormulaBothEntryPoints ==
    RepoCall =>
        /\ ret.architecture_score >= 0
        /\ ret.architecture_score <= 100000
        /\ ret.architecture_score
              = ClaimedScore(ret.total_files, Cardinality(DOMAIN ret.languages),
                             LargestCounted(op),
                             calculate_complexity_score(
                                 [total_files |-> ret.total_files,
                                  total_lines |-> ret.total_lines,
                                  languages |-> ret.languages]))

\* The FileMetrics of the analysed files.
AnalysedMetrics ==
    [i \in 1..Len(Analysed) |->
        analyze_file_enhanced(languages, Analysed[i].path, Analysed[i].src,
                              ~Analysed[i].parses)]

\* The number of patterns of type t over a sequence of FileMetrics.
PatternsOfType(file_metrics, t) ==
    SumSeq([i \in 1..Len(file_metrics) |->
               Cardinality({j \in 1..Len(file_metrics[i].patterns) :
                               file_metrics[i].patterns[j].pattern_type = t})])

\* C12 amended: that formula gives the architecture_score of analyze_repository
\* only (with its complexity_score as the complexity estimate).  The
\* architecture_score of analyze_repository_enhanced is instead the mean
\* maintainability index of the analysed files, minus 2 per anti-pattern (at most
\* 20), plus 1 per design pattern (at most 10), clamped to [0, 100], and 0 when no
\* file was analysed.  Both values lie in [0, 100].
C12_ScoreFormulaPerEntryPoint ==
    /\ RepoCall => (ret.architecture_score >= 0 /\ ret.architecture_score <= 100000)
    /\ (op = "analyze_repository" /\ arg = RepoRoot) =>
          ret.architecture_score
              = ClaimedScore(ret.total_files, Cardinality(DOMAIN ret.languages),
                             LargestCounted(op), ret.complexity_score)
    /\ (op = "analyze_repository_enhanced" /\ arg = RepoRoot) =>
          ret.architecture_score
              = (IF Analysed = <<>> THEN 0
                 ELSE LET sum == SumSeq([i \in 1..Len(AnalysedMetrics) |->
                                           AnalysedMetrics[i].quality.maintainability_index])
                          mean == sum \div Len(Analysed)
                          penalty == Min(2 * PatternsOfType(AnalysedMetrics, "anti_pattern"),
                                         20) * 1000
                          bonus == Min(PatternsOfType(AnalysedMetrics, "design_pattern"),
                                       10) * 1000
                      IN  Max(0, Min(100000, mean - penalty + bonus)))

C12_Witness ==
    /\ op = "analyze_repository"
    /\ arg = RepoRoot
    /\ fs = ScenarioF
    /\ ret.total_files = 6
    /\ ret.largest_files[1].lines > 1000
    /\ ret.complexity_score > 700
    /\ ret.architecture_score = 5040

\* ------------------------------------------------ claims on direct calls

InRange(x, lo, hi) == lo <= x /\ x <= hi

\* C13: maintainability_index lies in [0, 100] in every result: from
\* calculate_maintainability_index for every cyclomatic complexity and line count
\* (100 for 0 lines), in every FileMetrics (50 is the degraded default), and in the
\* repository-level quality_metrics.
C13_MaintainabilityInRange ==
    /\ op = "calculate_maintainability_index" =>
          /\ InRange(ret, 0, 100000)
          /\ arg.loc = 0 => ret = 100000
    /\ op = "analyze_file_enhanced" =>
          /\ InRange(ret.quality.maintainability_index, 0, 100000)
          /\ ~(FileLanguage \in languages /\ TheFile.parses) =>
                ret.quality.maintainability_index = 50000
    /\ op = "_calculate_quality_metrics" =>
          InRange(ret.maintainability_index, 0, 100000)

C13_Witness ==
    /\ op = "calculate_maintainability_index"
    /\ arg.cyclomatic_complexity = 5
    /\ arg.loc = 100
    /\ ret > 0
    /\ ret < 1000

C17_MakefileAndShellUndetected ==
    op = "detect_language" =>
        /\ arg.name = FileName("Makefile", "") => ret = NoLanguage
        /\ arg.name = FileName("script", ".sh") => ret = NoLanguage
        /\ arg.name = FileName("TEST", ".PY") => ret = "python"

\* ------------------------------------- further claims on one file

\* The confidences of a sequence of patterns lie in [0, 1].
ConfidencesInRange(patterns) ==
    \A i \in 1..Len(patterns) : InRange(patterns[i].confidence, 0, 1000)

\* C14: every CodePattern of a FileMetrics and every entry of the line-based
\* detector has a confidence in [0, 1].
C14_ConfidenceInRange ==
    /\ op = "analyze_file_enhanced" => ConfidencesInRange(ret.patterns)
    /\ op = "_detect_file_patterns" =>
          /\ ConfidencesInRange(ret.design_patterns)
          /\ ConfidencesInRange(ret.anti_patterns)
          /\ ConfidencesInRange(ret.code_smells)

C14_Witness ==
    /\ AstMode
    /\ \E i, j \in 1..Len(ret.patterns) :
          /\ ret.patterns[i].pattern_type = "anti_pattern"
          /\ ret.patterns[j].pattern_type = "design_pattern"
          /\ ret.patterns[i].confidence = 800
          /\ ret.patterns[j].confidence = 600

\* C18: for a path that matches no language analyze_file returns language
\* "unknown" with functions, classes, imports and comments 0 and only the line
\* counts besides, where lines_of_code = non_empty_lines + blank_lines.
C18_UnknownLanguageLineCountsOnly ==
    (op = "analyze_file" /\ FileLanguage = NoLanguage) =>
        /\ DOMAIN ret = {"lines_of_code", "non_empty_lines", "blank_lines", "language",
                         "functions", "classes", "imports", "comments"}
        /\ ret.language = "unknown"
        /\ ret.functions = 0 /\ ret.classes = 0 /\ ret.imports = 0 /\ ret.comments = 0
        /\ ret.lines_of_code = Len(FileLines)
        /\ ret.non_empty_lines = Len(SelectSeq(FileLines, LAMBDA l : l.lead # ""))
        /\ ret.lines_of_code = ret.non_empty_lines + ret.blank_lines

C18_Witness ==
    /\ op = "analyze_file"
    /\ FileLanguage = NoLanguage
    /\ TheFile.src = <<Func(2, "pass"), Blank>>
    /\ ret.lines_of_code = 4
    /\ ret.non_empty_lines = 3
    /\ ret.blank_lines = 1

\* ----------------------------------- further claims on a repository

\* C15: aggregating an empty directory yields total_files 0, architecture_score
\* 0.0 and no hotspots, from analyze_repository and analyze_repository_enhanced.
C15_EmptyDirectory ==
    (RepoCall /\ fs = <<>>) =>
        /\ ret.total_files = 0
        /\ ret.architecture_score = 0
        /\ ret.hotspots = <<>>

C15_Witness ==
    /\ RepoCall
    /\ fs = <<>>
    /\ op = "analyze_repository_enhanced"
    /\ ret.total_files = 0
    /\ prev # NoValue
    /\ prev.op = "analyze_repository"
    /\ prev.arg = RepoRoot
    /\ prev.ret.architecture_score = 0


\* ------------------------------------------- claims on the analysis cache

\* The text the last call found at the cache file of its URL.
FoundFile == FileOf(prev.dir, arg)

\* The entry carries a cached_at timestamp that reads as a time.
HasTimestamp(text) ==
    /\ text.json = "object"
    /\ text.cached_at # NoValue
    /\ "iso" \in DOMAIN text.cached_at

\* Hours between the entry's cached_at and the clock reading at.
AgeAt(text, at) == at - text.cached_at.iso

LacksTimestamp(text) == text.json # "object" \/ text.cached_at = NoValue

\* C19: get returns a result only when the cache file of the URL exists, is
\* readable JSON and was cached no more than 24 hours before; when the file
\* exists but is expired, has no cached_at or is corrupted, get returns None and
\* the file is gone afterwards; without a file get returns None and the
\* directory is as it was.
C19_GetOnlyFreshEntries ==
    op = "get" =>
        /\ ret # NoValue =>
              /\ FoundFile # NoValue
              /\ HasTimestamp(FoundFile)
              /\ AgeAt(FoundFile, prev.now) <= 24
              /\ cache_dir = prev.dir
        /\ (/\ FoundFile # NoValue
            /\ \/ FoundFile = NotJson
               \/ LacksTimestamp(FoundFile)
               \/ (HasTimestamp(FoundFile) /\ AgeAt(FoundFile, prev.now) > 24)) =>
              /\ ret = NoValue
              /\ get_cache_file_path(arg) \notin DOMAIN cache_dir
        /\ FoundFile = NoValue =>
              /\ ret = NoValue
              /\ cache_dir = prev.dir

\* get answered from an entry that was exactly 24 hours old and left it there.
C19_Witness ==
    /\ op = "get"
    /\ arg = Url2
    /\ FoundFile # NoValue
    /\ HasTimestamp(FoundFile)
    /\ AgeAt(FoundFile, prev.now) = 24
    /\ FoundFile.repository_url = Url1
    /\ ret = CompletedResult
    /\ get_cache_file_path(Url2) \in DOMAIN cache_dir

\* The entry can be served at the clock reading at: it has a timestamp no more
\* than 24 hours old and analysis data that make an AnalysisResult.
NonExpiredEntry(text, at) ==
    /\ text # NoValue
    /\ HasTimestamp(text)
    /\ AgeAt(text, at) <= 24
    /\ text.analysis_data # NoValue
    /\ Validates(text.analysis_data)

\* The analysis a request was answered with (NoValue: none, an error response).
AnswerOf(call_op, call_ret) ==
    IF call_op = "create_analysis"
    THEN (IF call_ret.status_code = 200 THEN call_ret.body ELSE NoValue)
    ELSE call_ret

\* C20: a request for a URL with a non-expired cache entry is answered with the
\* cached result (same ai_summary, status completed) and no fresh analysis runs;
\* a second request for the same URL right after a completed first one finds
\* the entry the first wrote and is answered with it.
C20_RequestsServedFromCache ==
    op \in RequestOps =>
        /\ (/\ NonExpiredEntry(FoundFile, prev.now)
            /\ FoundFile.analysis_data.status = "completed") =>
              /\ AnswerOf(op, ret) # NoValue
              /\ AnswerOf(op, ret).status = "completed"
              /\ AnswerOf(op, ret).ai_summary = deserialize(FoundFile.analysis_data).ai_summary
              /\ Len(analyses) = prev.analyses
        /\ (/\ prev.last # NoValue
            /\ prev.last.arg = arg
            /\ AnswerOf(prev.last.op, prev.last.ret) # NoValue
            /\ AnswerOf(prev.last.op, prev.last.ret).status = "completed") =>
              /\ NonExpiredEntry(FoundFile, prev.now)
              /\ deserialize(FoundFile.analysis_data) = AnswerOf(prev.last.op, prev.last.ret)
              /\ AnswerOf(op, ret) = AnswerOf(prev.last.op, prev.last.ret)
              /\ Len(analyses) = prev.analyses


\* ------------------------------------- claims on the order of patterns

\* C24 as stated: the CodePattern sequence of a file is in source order, a
\* pattern with a smaller line number coming first whatever its kind or name.
C24_PatternsInSourceOrder ==
    AstMode =>
        \A i, j \in 1..Len(ret.patterns) :
            i < j => ret.patterns[i].line_number <= ret.patterns[j].line_number

\* The detector passes in the order they run.
DetectorRank(pattern_name) ==
    CASE pattern_name = "Long Method" -> 1
      [] pattern_name = "God Class" -> 2
      [] pattern_name = "Singleton" -> 3

\* C24 amended: the sequence holds the Long Method entries, then the God Class
\* entries, then the Singleton entries; the entries of one name are in source
\* order (strictly increasing line numbers), and a name may occur more than once.
C24_PatternsInDetectorThenSourceOrder ==
    AstMode =>
        /\ \A i, j \in 1..Len(ret.patterns) :
              i < j =>
                \/ DetectorRank(ret.patterns[i].pattern_name)
                      < DetectorRank(ret.patterns[j].pattern_name)
                \/ /\ ret.patterns[i].pattern_name = ret.patterns[j].pattern_name
                   /\ ret.patterns[i].line_number < ret.patterns[j].line_number
        /\ (FileLanguage = "python"
              /\ TheFile.src = <<Func(LongMethodThreshold + 1, "pass"),
                                 Func(LongMethodThreshold + 1, "pass")>>) =>
              /\ LinesNamed(ret.patterns, "Long Method") = <<1, LongMethodThreshold + 3>>
              /\ Len(ret.patterns) = 2

\* A Singleton on line 1 is listed after the Long Method of line 2.
C24_Witness ==
    /\ AstMode
    /\ FileLanguage = "python"
    /\ TheFile.src = <<Stmt({"__new__", "cls"}), Func(LongMethodThreshold + 1, "pass")>>
    /\ Len(ret.patterns) = 2
    /\ ret.patterns[1].pattern_name = "Long Method"
    /\ ret.patterns[1].line_number = 2
    /\ ret.patterns[2].pattern_name = "Singleton"
    /\ ret.patterns[2].line_number = 1


\* ------------------------------------- claims on cognitive complexity

\* The nodes of a tree, each with the types of the nodes that enclose it.
RECURSIVE NodesUnder(_, _)
NodesUnder(node, enclosing) ==
    <<[type |-> node.type, enclosing |-> enclosing]>>
    \o Flatten([i \in 1..Len(node.children) |->
                   NodesUnder(node.children[i], Append(enclosing, node.type))])

ControlKinds == {"if_statement", "while_statement", "for_statement"}

\* The node types whose subtree lies one nesting level deeper.
LevelKinds == ControlKinds \cup {"function_definition"}

LevelOf(entry) ==
    Cardinality({i \in 1..Len(entry.enclosing) : entry.enclosing[i] \in LevelKinds})

\* The sum over the nodes: 1 + level for a control structure, 1 for a node of
\* the flat kinds.
WeightedSum(tree, flat_kinds) ==
    LET entries == NodesUnder(tree, <<>>)
    IN  SumSeq([i \in 1..Len(entries) |->
                  IF entries[i].type \in ControlKinds THEN 1 + LevelOf(entries[i])
                  ELSE IF entries[i].type \in flat_kinds THEN 1
                  ELSE 0])

\* C25 as stated: in every language each if/while/for node adds 1 plus the
\* nesting level in force at it, each exception-handling node (try, except,
\* catch) adds exactly 1, and the result is never negative.
C25_CognitiveAsStated ==
    AstMode =>
        /\ ret.complexity.cognitive_complexity
              = WeightedSum(FileTree, {"try_statement", "except_clause", "catch_clause"})
        /\ ret.complexity.cognitive_complexity >= 0

\* The node types that add a flat 1, per language.
FlatKinds(language) ==
    CASE language = "python" -> {"try_statement", "except_clause"}
      [] language \in {"javascript", "typescript"} -> {"switch_statement", "catch_clause"}
      [] OTHER -> {}

\* C25 amended: for Python, JavaScript and TypeScript the result is the sum of
\* 1 + level over the if/while/for nodes (level: the enclosing if/while/for and
\* function_definition nodes) and of 1 over the flat kinds of the language; for
\* every other language it is 0; it is never negative.
C25_CognitivePerLanguage ==
    AstMode =>
        /\ ret.complexity.cognitive_complexity
              = (IF FileLanguage \in {"python", "javascript", "typescript"}
                 THEN WeightedSum(FileTree, FlatKinds(FileLanguage))
                 ELSE 0)
        /\ ret.complexity.cognitive_complexity >= 0
        /\ (FileLanguage = "python" /\ TheFile.src = <<Func(2, "nested")>>)
              => ret.complexity.cognitive_complexity = 5

\* A while inside an if inside a Python function: 2 for the if, 3 for the while.
C25_Witness ==
    /\ AstMode
    /\ FileLanguage = "python"
    /\ TheFile.src = <<Func(2, "nested"), Func(2, "try")>>
    /\ ret.complexity.cognitive_complexity = 7


\* --------------------------------------------- claims on dependencies

\* The import text contains ".", "./" or "../".
InternalImport(imp) == \E i \in 1..Len(imp) : imp[i] \in {".", "./", "../"}

\* s is t with the elements at some positions left out, in t's order, and the
\* positions kept are exactly those in keep.
KeepsInOrder(s, t, keep) ==
    /\ Len(s) = Cardinality(keep)
    /\ \A i \in keep : s[Cardinality({j \in keep : j <= i})] = t[i]

\* C26: internal_deps and external_deps partition imports: each import is in
\* exactly one list, internal iff it contains ".", "./" or "../", and each list
\* keeps the order the strings have in imports.
C26_DependenciesPartitionImports ==
    op = "analyze_dependencies" =>
        LET internal == {i \in 1..Len(ret.imports) : InternalImport(ret.imports[i])}
            external == (1..Len(ret.imports)) \ internal
        IN  /\ KeepsInOrder(ret.internal_deps, ret.imports, internal)
            /\ KeepsInOrder(ret.external_deps, ret.imports, external)
            /\ Len(ret.internal_deps) + Len(ret.external_deps) = Len(ret.imports)

\* The module of test_analyze_dependencies_python, less its first import.
C26_Witness ==
    /\ op = "analyze_dependencies"
    /\ arg.language = "python"
    /\ Len(ret.imports) = 3
    /\ ret.external_deps = <<<<"from", "pathlib", "import", "Path">>,
                             <<"import", "external_package">>>>
    /\ ret.internal_deps = <<<<"from", ".", "local_module", "import", "something">>>>
    /\ ret.imports[2] = ret.internal_deps[1]


\* ------------------------------------------------ claims on largest_files

\* The position in the walk of the analysed file at `path`.
WalkIndex(path) == CHOOSE i \in 1..Len(Analysed) : Analysed[i].path = path

\* C27: largest_files of analyze_repository holds at most 10 entries (all
\* analysed files when there are fewer), each an analysed file with its line
\* count, in non-increasing order of lines; no file left out has more lines than
\* a listed one; among files with equal line counts the one met earlier in the
\* walk comes first and is the one kept where the limit cuts a tie.
C27_LargestFilesTopTenStable ==
    (op = "analyze_repository" /\ arg = RepoRoot) =>
        LET largest == ret.largest_files
            listed == {largest[k].path : k \in 1..Len(largest)}
        IN  /\ Len(largest) = Min(TopN, Len(Analysed))
            /\ Cardinality(listed) = Len(largest)
            /\ \A k \in 1..Len(largest) :
                  /\ \E i \in 1..Len(Analysed) : Analysed[i].path = largest[k].path
                  /\ largest[k].lines = LinesCounted(op, Analysed[WalkIndex(largest[k].path)])
            /\ \A k, m \in 1..Len(largest) :
                  k < m =>
                    \/ largest[k].lines > largest[m].lines
                    \/ /\ largest[k].lines = largest[m].lines
                       /\ WalkIndex(largest[k].path) < WalkIndex(largest[m].path)
            /\ \A i \in 1..Len(Analysed) :
                  Analysed[i].path \notin listed =>
                    \A k \in 1..Len(largest) :
                        \/ largest[k].lines > LinesCounted(op, Analysed[i])
                        \/ /\ largest[k].lines = LinesCounted(op, Analysed[i])
                           /\ WalkIndex(largest[k].path) < i

\* Eleven files of 30 lines: the first ten of the walk are listed, in walk order.
C27_Witness ==
    /\ op = "analyze_repository"
    /\ arg = RepoRoot
    /\ fs = ScenarioG
    /\ Len(ret.largest_files) = TopN
    /\ ret.largest_files[1].path = fs[1].path
    /\ ret.largest_files[TopN].path = fs[TopN].path
    /\ ret.largest_files[TopN].lines = 30
    /\ \A k \in 1..TopN : ret.largest_files[k].path # fs[TopN + 1].path


\* ---------------------------------------------- claims on the service

\* C28: a call of AnalysisService.analyze_repository that returns yields a
\* result whose status is completed or failed, stored in _analyses under its id
\* exactly once, and failed exactly when it carries an error_message.
C28_ResultFinalAndStoredOnce ==
    op = "analyze_repository" =>
        /\ ret.status \in {"completed", "failed"}
        /\ Cardinality({i \in 1..Len(analyses) : analyses[i].id = ret.id}) = 1
        /\ \E i \in 1..Len(analyses) : analyses[i] = ret
        /\ (ret.status = "failed") <=> (ret.error_message # NoValue)

\* A failed analysis follows a completed one; both are in the store.
C28_Witness ==
    /\ op = "analyze_repository"
    /\ ret.status = "failed"
    /\ ret.error_message # NoValue
    /\ Len(analyses) = 2
    /\ analyses[1].status = "completed"
    /\ analyses[1].error_message = NoValue
    /\ analyses[2] = ret

\* ------------------------------------- claims on the cache's isolation

\* The files the last call took out of the cache directory.
RemovedFiles == (DOMAIN prev.dir) \ (DOMAIN cache_dir)

\* The file holds an entry that set wrote: a JSON object.
IsEntry(text) == text.json = "object"

\* C29 as stated: get(url) never returns a result that set stored under a
\* different repository URL, and clear(url) never removes the entry of a
\* different repository URL.
C29_IsolatedPerUrl ==
    /\ (op = "get" /\ ret # NoValue) => FoundFile.repository_url = arg
    /\ (op = "clear" /\ arg # NoValue) =>
          \A n \in RemovedFiles :
              IsEntry(prev.dir[n]) => prev.dir[n].repository_url = arg.some

\* C29: get(url) returns only a result that set stored under a URL with the
\* cache file name of url (URLs that differ in the scheme share one file), and
\* clear(url) removes no file but the one with the cache file name of url; every
\* other file stays as it was.
C29_IsolatedPerCacheFile ==
    /\ (op = "get" /\ ret # NoValue) =>
          /\ IsEntry(FoundFile)
          /\ get_cache_file_path(FoundFile.repository_url) = get_cache_file_path(arg)
          /\ ret = deserialize(FoundFile.analysis_data)
    /\ (op = "clear" /\ arg # NoValue) =>
          /\ RemovedFiles \subseteq {get_cache_file_path(arg.some)}
          /\ get_cache_file_path(arg.some) \notin DOMAIN cache_dir
          /\ \A n \in DOMAIN cache_dir : n \in DOMAIN prev.dir /\ cache_dir[n] = prev.dir[n]

\* clear of the http URL took the entry stored under the https URL and left the
\* entry of the other repository.
C29_Witness ==
    /\ op = "clear"
    /\ arg = Some(Url2)
    /\ RemovedFiles = {get_cache_file_path(Url1)}
    /\ IsEntry(prev.dir[get_cache_file_path(Url1)])
    /\ prev.dir[get_cache_file_path(Url1)].repository_url = Url1
    /\ get_cache_file_path(Url3) \in DOMAIN cache_dir

\* ---------------------------------------- claims on the response cache

\* The key of the last call on the response cache.
ArgKey == generate_cache_key(arg.prompt, arg.model)

HasKey(cache, cache_key) == \E i \in 1..Len(cache) : cache[i].key = cache_key

\* No item of the cache is older than item i.
IsOldest(cache, i) == \A j \in 1..Len(cache) : cache[i].timestamp <= cache[j].timestamp

\* C21: the response cache never holds more than max_size items, and a set of
\* a new key into a full cache evicts an item with the oldest timestamp and
\* no other: every other item stays, in its order, and the new item follows.
C21_SizeBoundedOldestEvicted ==
    /\ response_cache # NoValue =>
          Len(response_cache.cache) <= response_cache.max_size
    /\ (/\ op = "cache_set"
        /\ ~ret.raised
        /\ Len(prev.rc.cache) >= prev.rc.max_size
        /\ ~HasKey(prev.rc.cache, ArgKey)) =>
          \E i \in 1..Len(prev.rc.cache) :
              /\ IsOldest(prev.rc.cache, i)
              /\ Len(response_cache.cache) = Len(prev.rc.cache)
              /\ SubSeq(response_cache.cache, 1, Len(prev.rc.cache) - 1)
                     = Without(prev.rc.cache, i)
              /\ response_cache.cache[Len(response_cache.cache)].key = ArgKey
              /\ response_cache.cache[Len(response_cache.cache)].timestamp = prev.now

\* With max_size 2, prompt_2 was set after prompt_0 and then prompt_1: prompt_0
\* is gone, prompt_1 and prompt_2 are there.
C21_Witness ==
    /\ op = "cache_set"
    /\ response_cache.max_size = 2
    /\ arg = [prompt |-> Prompt(2), model |-> "gpt-3.5-turbo"]
    /\ Len(prev.rc.cache) = 2
    /\ prev.rc.cache[1].prompt = Prompt(0)
    /\ prev.rc.cache[2].prompt = Prompt(1)
    /\ prev.rc.cache[1].timestamp < prev.rc.cache[2].timestamp
    /\ ~HasKey(response_cache.cache, generate_cache_key(Prompt(0), "gpt-3.5-turbo"))
    /\ HasKey(response_cache.cache, generate_cache_key(Prompt(1), "gpt-3.5-turbo"))
    /\ HasKey(response_cache.cache, ArgKey)

\* ------------------------------------------- claims on the middleware

\* Item i of the cache is for the prompt of the last request and was not
\* expired when the request came.
LiveItemFor(cache, i) ==
    /\ cache[i].prompt = arg.prompt
    /\ prev.now - cache[i].timestamp <= prev.rc.ttl

\* C22: when the response cache holds a non-expired item for the prompt, under
\* whichever model name, process_request returns the cached response with
\* cached = True and cost 0.0, does not call the LLM and leaves the usage
\* statistics as they were.
C22_CachedPromptServedFromCache ==
    (/\ op = "process_request"
     /\ \E i \in 1..Len(prev.rc.cache) : LiveItemFor(prev.rc.cache, i)) =>
        /\ "cached" \in DOMAIN ret
        /\ ret.cached
        /\ ret.cost = 0
        /\ \E i \in 1..Len(prev.rc.cache) :
               LiveItemFor(prev.rc.cache, i) /\ ret.response = prev.rc.cache[i].response
        /\ ~prev.input.llm_called
        /\ cost_monitor.usage_stats = prev.monitor.usage_stats

\* The cost process_request estimates for the last request: the prompt's
\* tokens in, 100 tokens out, at the prices of the model chosen for it.
EstimatedCost ==
    get_cost_estimate(get_optimal_model(prev.input.kind.task_complexity,
                                        prev.input.kind.available_models),
                      tokens_of(arg.prompt), 100)

\* The estimate pushes the daily or the monthly total over its limit, or is
\* itself over the limit of one request.
OverLimits ==
    \/ prev.monitor.usage_stats.daily.cost + EstimatedCost > cost_limits.daily
    \/ prev.monitor.usage_stats.monthly.cost + EstimatedCost > cost_limits.monthly
    \/ EstimatedCost > cost_limits.per_request

AnsweredFromCache == "cached" \in DOMAIN ret /\ ret.cached

\* C23: a request that is not answered from the cache and whose estimated cost
\* fails the check of the limits returns the error "Cost limit exceeded" with
\* the estimate; the LLM is not called, the monitor is as it was and the
\* response cache has no item it did not have before.
C23_RefusedOverLimits ==
    (op = "process_request" /\ ~AnsweredFromCache /\ OverLimits) =>
        /\ ret = [error |-> "Cost limit exceeded", estimated_cost |-> EstimatedCost]
        /\ ~prev.input.llm_called
        /\ cost_monitor = prev.monitor
        /\ \A i \in 1..Len(response_cache.cache) :
               \E j \in 1..Len(prev.rc.cache) : response_cache.cache[i] = prev.rc.cache[j]

\* A request within the limit of one request was refused because it would have
\* pushed the daily total over its limit; its expired item left the cache.
C23_Witness ==
    /\ op = "process_request"
    /\ "error" \in DOMAIN ret
    /\ EstimatedCost <= cost_limits.per_request
    /\ prev.monitor.usage_stats.daily.cost <= cost_limits.daily
    /\ prev.monitor.usage_stats.daily.cost + EstimatedCost > cost_limits.daily
    /\ prev.monitor.usage_stats.monthly.cost + EstimatedCost <= cost_limits.monthly
    /\ cost_monitor = prev.monitor
    /\ Len(response_cache.cache) < Len(prev.rc.cache)

\* C30: after process_request calls the tracked daily cost is no more than the
\* daily limit and the tracked monthly cost no more than the monthly limit: a
\* request whose actual cost pushes a total over its limit is not charged.
C30_TrackedCostWithinLimits ==
    op = "process_request" =>
        /\ cost_monitor.usage_stats.daily.cost <= cost_limits.daily
        /\ cost_monitor.usage_stats.monthly.cost <= cost_limits.monthly

====
